---------------------------- MODULE Spec2Model ----------------------------
(***************************************************************************)
(* A model of pykamek: the tagged 32-bit word (kmword.py), the ELF linker  *)
(* (linker.py), the Kamek binary (kamek.py) and its commands               *)
(* (kmcommands.py).                                                        *)
(*                                                                         *)
(* TLC's integers are 32-bit signed, and the program's intermediate values *)
(* reach 0x1FFFFFFFF, so the machine word is modelled at WordBits bits (a  *)
(* byte at WordBits / 4 bits).  Every mask and limit of the source is      *)
(* written by its position in the word: 0xFFFFFFFF is WordMax, 0x80000000  *)
(* is TopBit, 0x7FFFFFFF is TopBit - 1, 0x1FFFFFFFF is ClampMax.           *)
(***************************************************************************)
EXTENDS Integers, Sequences, FiniteSets, TLC

VARIABLES
    word,     \* the KWord object the word-level calls act on
    linker,   \* the Linker object
    kbin,     \* the KamekBinary object
    dol,      \* the DolFile object
    call      \* the last call made on the API: its name, arguments, outcome

vars == <<word, linker, kbin, dol, call>>

-----------------------------------------------------------------------------
(* Machine word *)

WordBits == 28
ByteBits == WordBits \div 4
HalfBits == WordBits \div 2
Modulus  == 2 ^ WordBits          \* 0x100000000
WordMax  == Modulus - 1           \* 0xFFFFFFFF
TopBit   == 2 ^ (WordBits - 1)    \* 0x80000000
ClampMax == 2 * Modulus - 1       \* 0x1FFFFFFFF
\* Python integers are unbounded; every value beyond ClampMax in magnitude
\* is refused by __clamp alike, so such values are kept as +-Huge.
Huge     == 2 * Modulus

Abs(n) == IF n < 0 THEN -n ELSE n

\* An outcome is a value or a raised exception.
Raise(e)  == [exc |-> e]
Raised(r) == "exc" \in DOMAIN r
Ok(n)     == [v |-> n]

-----------------------------------------------------------------------------
(* Python integer arithmetic, as far as KWord uses it.  The right operand  *)
(* r of an operator is the outcome of __retrieve_value: an exception it    *)
(* raised is the outcome of the operator.                                  *)

PyAdd(x, r) == IF Raised(r) THEN r ELSE Ok(x + r.v)
PySub(x, r) == IF Raised(r) THEN r ELSE Ok(x - r.v)

Times(x, y) ==
    IF x = 0 \/ y = 0 THEN 0
    ELSE IF Abs(x) > ClampMax \div Abs(y)
         THEN (IF (x < 0) = (y < 0) THEN Huge ELSE -Huge)
         ELSE x * y

PyMul(x, r) == IF Raised(r) THEN r ELSE Ok(Times(x, r.v))

\* x % y with the sign of the divisor
PyMod(x, r) ==
    IF Raised(r) THEN r
    ELSE IF r.v = 0 THEN Raise("ZeroDivisionError")
    ELSE Ok(IF r.v > 0 THEN x % r.v ELSE -((-x) % (-r.v)))

\* x // y, rounding to minus infinity
PyFloorDiv(x, r) ==
    IF Raised(r) THEN r
    ELSE IF r.v = 0 THEN Raise("ZeroDivisionError")
    ELSE Ok(IF r.v > 0 THEN x \div r.v ELSE (-x) \div (-r.v))

\* int(x / y): the float quotient truncated toward zero
PyTrueDivInt(x, r) ==
    IF Raised(r) THEN r
    ELSE IF r.v = 0 THEN Raise("ZeroDivisionError")
    ELSE Ok(IF (x < 0) = (r.v < 0) THEN Abs(x) \div Abs(r.v)
            ELSE -(Abs(x) \div Abs(r.v)))

PyLShift(x, r) ==
    IF Raised(r) THEN r
    ELSE IF r.v < 0 THEN Raise("ValueError")
    ELSE IF x = 0 THEN Ok(0)
    ELSE IF r.v > WordBits + 1 THEN Ok(IF x > 0 THEN Huge ELSE -Huge)
    ELSE Ok(Times(x, 2 ^ r.v))

PyRShift(x, r) ==
    IF Raised(r) THEN r
    ELSE IF r.v < 0 THEN Raise("ValueError")
    ELSE IF r.v > WordBits + 1 THEN Ok(IF x < 0 THEN -1 ELSE 0)
    ELSE Ok(x \div (2 ^ r.v))

AndTab == [p \in 0..1 |-> [q \in 0..1 |-> IF p = 1 /\ q = 1 THEN 1 ELSE 0]]
OrTab  == [p \in 0..1 |-> [q \in 0..1 |-> IF p = 1 \/ q = 1 THEN 1 ELSE 0]]
XorTab == [p \in 0..1 |-> [q \in 0..1 |-> IF p # q THEN 1 ELSE 0]]

\* bits lo .. hi-1 of x and y combined bit by bit, each left in its place
RECURSIVE Bitwise(_, _, _, _, _)
Bitwise(tab, x, y, lo, hi) ==
    IF hi - lo = 1
    THEN tab[(x \div 2 ^ lo) % 2][(y \div 2 ^ lo) % 2] * 2 ^ lo
    ELSE Bitwise(tab, x, y, lo, (lo + hi) \div 2)
         + Bitwise(tab, x, y, (lo + hi) \div 2, hi)

\* a k-bit two's complement pattern as an integer
Signed(r, k) == IF r >= 2 ^ (k - 1) THEN r - 2 ^ k ELSE r

\* Python's & | ^ on integers of either sign: two's complement, two bits
\* wider than the word (no operand KWord passes exceeds +-WordMax).
PyBitwise(tab, x, r) ==
    IF Raised(r) THEN r
    ELSE Ok(Signed(Bitwise(tab, x % (4 * Modulus), r.v % (4 * Modulus),
                           0, WordBits + 2),
                   WordBits + 2))

BitAnd(x, r) == PyBitwise(AndTab, x, r)
BitOr(x, r)  == PyBitwise(OrTab, x, r)
BitXor(x, r) == PyBitwise(XorTab, x, r)

\* x < y, x >= y, ... as the bool returned
Compared(x, rel, r) ==
    IF Raised(r) THEN r
    ELSE [bool |-> CASE rel = "<"  -> x < r.v
                     [] rel = ">=" -> x >= r.v
                     [] rel = ">"  -> x > r.v
                     [] rel = "==" -> x = r.v
                     [] rel = "!=" -> x # r.v]

-----------------------------------------------------------------------------
(* kmword.py: class KWord *)

VALUE    == 1
ABSOLUTE == 2
RELATIVE == 3
Types    == {VALUE, ABSOLUTE, RELATIVE}

\* An operand is a KWord object or a plain Python int.
IsKWord(x) == "type" \in DOMAIN x
PyInt(n)   == [int |-> n]

\* a clamp that leaves a negative value as it is
ClampNoWrapUp(val) ==
    IF val > ClampMax \/ val < -ClampMax THEN Raise("ValueError")
    ELSE IF val > WordMax THEN Ok(val - Modulus)
    ELSE Ok(val)

__clamp(val) ==
    IF val > ClampMax \/ val < -ClampMax THEN Raise("ValueError")
    ELSE IF val > WordMax THEN Ok(val - Modulus)
    ELSE IF val < 0 THEN Ok(val + Modulus)
    ELSE Ok(val)

__expand(self, val) ==
    IF self.signed
    THEN IF val > TopBit - 1 THEN val - Modulus
         ELSE IF val < 0 THEN val + Modulus
         ELSE val
    ELSE val

\* the value property
value(self) == __expand(self, self._value)

\* w.value = v through the setter; c is self.__clamp(v)
SetValue(self, c) == IF Raised(c) THEN c ELSE [self EXCEPT !._value = c.v]

\* the object KWord.__init__ leaves for the int v
NewWord(v, _type, signed) ==
    IF v > WordMax \/ v < -(TopBit - 1) THEN Raise("ValueError")
    ELSE [type   |-> _type,
          signed |-> signed /\ v < TopBit - 1,
          _value |-> __clamp(v).v]

\* KWord(value, _type, signed); value is a KWord or an int
KWord(val, _type, signed) ==
    NewWord(IF IsKWord(val) THEN value(val) ELSE val.int, _type, signed)

\* self.__expand(c) for c the outcome of a clamp
Expanded(self, c) == IF Raised(c) THEN c ELSE Ok(__expand(self, c.v))

__retrieve_value(self, other) ==
    IF IsKWord(other) THEN Ok(value(other))
    ELSE Expanded(self, __clamp(other.int))

\* KWord(c, _type) for c the outcome of a clamp
WordOf(c, _type) == IF Raised(c) THEN c ELSE NewWord(c.v, _type, FALSE)

\* KWord(self.__clamp(raw), self.type): the tail every binary operator shares
ClampedWord(raw, _type) ==
    IF Raised(raw) THEN raw ELSE WordOf(__clamp(raw.v), _type)

__add__(self, other) ==
    ClampedWord(PyAdd(value(self), __retrieve_value(self, other)), self.type)

\* a subtraction whose result takes the right operand's kind
SubKindOfOther(self, other) ==
    ClampedWord(PySub(value(self), __retrieve_value(self, other)),
                IF IsKWord(other) THEN other.type ELSE self.type)

__sub__(self, other) ==
    ClampedWord(PySub(value(self), __retrieve_value(self, other)), self.type)

__mul__(self, other) ==
    ClampedWord(PyMul(value(self), __retrieve_value(self, other)), self.type)

__truediv__(self, other) ==
    ClampedWord(PyTrueDivInt(value(self), __retrieve_value(self, other)), self.type)

__floordiv__(self, other) ==
    ClampedWord(PyFloorDiv(value(self), __retrieve_value(self, other)), self.type)

__mod__(self, other) ==
    ClampedWord(PyMod(value(self), __retrieve_value(self, other)), self.type)

__rshift__(self, other) ==
    ClampedWord(PyRShift(value(self), __retrieve_value(self, other)), self.type)

__lshift__(self, other) ==
    ClampedWord(PyLShift(value(self), __retrieve_value(self, other)), self.type)

__and__(self, other) ==
    ClampedWord(BitAnd(value(self), __retrieve_value(self, other)), self.type)

__or__(self, other) ==
    ClampedWord(BitOr(value(self), __retrieve_value(self, other)), self.type)

__xor__(self, other) ==
    ClampedWord(BitXor(value(self), __retrieve_value(self, other)), self.type)

\* self.value = self.__clamp(self._value + other); the setter clamps again
Reclamped(c) == IF Raised(c) THEN c ELSE __clamp(c.v)
Clamped(raw) == IF Raised(raw) THEN raw ELSE __clamp(raw.v)
__iadd__(self, other) ==
    SetValue(self,
             Reclamped(Clamped(PyAdd(self._value, __retrieve_value(self, other)))))

\* the other in-place operators: the same with the operator of each
__isub__(self, other) ==
    SetValue(self,
             Reclamped(Clamped(PySub(self._value, __retrieve_value(self, other)))))
__imul__(self, other) ==
    SetValue(self,
             Reclamped(Clamped(PyMul(self._value, __retrieve_value(self, other)))))
__idiv__(self, other) ==
    SetValue(self,
             Reclamped(Clamped(PyTrueDivInt(self._value, __retrieve_value(self, other)))))
__ifloordiv__(self, other) ==
    SetValue(self,
             Reclamped(Clamped(PyFloorDiv(self._value, __retrieve_value(self, other)))))
__imod__(self, other) ==
    SetValue(self,
             Reclamped(Clamped(PyMod(self._value, __retrieve_value(self, other)))))
__irshift__(self, other) ==
    SetValue(self,
             Reclamped(Clamped(PyRShift(self._value, __retrieve_value(self, other)))))
__ilshift__(self, other) ==
    SetValue(self,
             Reclamped(Clamped(PyLShift(self._value, __retrieve_value(self, other)))))
__iand__(self, other) ==
    SetValue(self,
             Reclamped(Clamped(BitAnd(self._value, __retrieve_value(self, other)))))
__ior__(self, other) ==
    SetValue(self,
             Reclamped(Clamped(BitOr(self._value, __retrieve_value(self, other)))))
__ixor__(self, other) ==
    SetValue(self,
             Reclamped(Clamped(BitXor(self._value, __retrieve_value(self, other)))))

\* self.value = v: the setter of the value property
value_setter(self, v) == SetValue(self, __clamp(v))

\* comparisons coerce both sides to their numeric value
__lt__(self, other) == Compared(value(self), "<", __retrieve_value(self, other))
__ge__(self, other) == Compared(value(self), ">=", __retrieve_value(self, other))
__gt__(self, other) == Compared(value(self), ">", __retrieve_value(self, other))
__eq__(self, other) == Compared(value(self), "==", __retrieve_value(self, other))
__ne__(self, other) == Compared(value(self), "!=", __retrieve_value(self, other))

\* -x & 0xFFFFFFFF and ~x & 0xFFFFFFFF on a Python int are x's negation and
\* complement modulo 2^32
__neg__(self)    == NewWord((-value(self)) % Modulus, self.type, FALSE)
__pos__(self)    == NewWord(value(self) % Modulus, self.type, FALSE)
__invert__(self) == NewWord((-value(self) - 1) % Modulus, self.type, FALSE)

\* hash() of a Python int below 2^61 - 1 is the int itself
__hash__(self) == value(self) + self.type * Modulus

is_absolute_addr(self) == self.type = ABSOLUTE
is_relative_addr(self) == self.type = RELATIVE
is_value(self)         == self.type = VALUE

Returned == [ret |-> "None"]

assert_value(self) ==
    IF ~is_value(self) THEN Raise("InvalidOperationException") ELSE Returned

assert_absolute(self) ==
    IF ~is_absolute_addr(self) THEN Raise("InvalidOperationException") ELSE Returned

assert_not_relative(self) ==
    IF is_relative_addr(self) THEN Raise("InvalidOperationException") ELSE Returned

\* an ambiguity check that tests both kinds for a clear top bit
AmbiguousWhenTopClear(self) ==
    IF ~is_value(self) /\ __eq__(__and__(self, PyInt(TopBit)), PyInt(0)).bool
    THEN Raise("InvalidOperationException")
    ELSE Returned

\* (self & 0x80000000) == 0 and (self & 0x80000000) != 0
assert_not_ambiguous(self) ==
    IF is_absolute_addr(self) /\ __eq__(__and__(self, PyInt(TopBit)), PyInt(0)).bool
    THEN Raise("InvalidOperationException")
    ELSE IF is_relative_addr(self)
            /\ __ne__(__and__(self, PyInt(TopBit)), PyInt(0)).bool
    THEN Raise("InvalidOperationException")
    ELSE Returned

-----------------------------------------------------------------------------
(* Strings the program takes apart are sequences of characters *)

StartsWith(s, prefix) ==
    Len(s) >= Len(prefix) /\ SubSeq(s, 1, Len(prefix)) = prefix

Digit == <<"0", "1", "2", "3", "4", "5", "6", "7", "8", "9">>

\* str(n) of a natural number
RECURSIVE Str(_)
Str(n) ==
    (IF n < 10 THEN <<>> ELSE Str(n \div 10)) \o <<Digit[(n % 10) + 1]>>

Zeros(n) == [k \in 1..n |-> 0]

\* a dict as a function: d[k] = v
Put(d, k, v) == [x \in DOMAIN d \cup {k} |-> IF x = k THEN v ELSE d[x]]
EmptyDict == [x \in {} |-> 0]

-----------------------------------------------------------------------------
(* addressmapper.py is not among the sources: AddressMapper.remap after the *)
(* specification, an ordered list of rules (start, end, delta); the first   *)
(* rule holding the address adds its delta, no rule leaves it unchanged.    *)

RECURSIVE remap(_, _)
remap(rules, address) ==
    IF rules = <<>> THEN address
    ELSE IF Head(rules).start <= address /\ address <= Head(rules).end
         THEN address + Head(rules).delta
         ELSE remap(Tail(rules), address)

-----------------------------------------------------------------------------
(* ELF objects as pyelftools presents them.  Section 0 and symbol 0 are the *)
(* null entries, so index i is element i + 1 of the sequence.               *)

\* the four bytes of a big-endian word
Byte == 2 ^ ByteBits
W(n) == <<n \div (Byte * Byte * Byte), (n \div (Byte * Byte)) % Byte,
          (n \div Byte) % Byte, n % Byte>>

\* ELFFlags.Reloc, the PowerPC relocation types (elfenums.py is not among the
\* sources; the values are the ELF ABI's, which Command.KCmdID repeats)
R_PPC_ADDR32    == 1
R_PPC_ADDR16_LO == 4
R_PPC_ADDR16_HI == 5
R_PPC_ADDR16_HA == 6
R_PPC_REL24     == 10

\* names of sections and symbols
NAME_symtab     == <<".", "s", "y", "m", "t", "a", "b">>
NAME_strtab     == <<".", "s", "t", "r", "t", "a", "b">>
NAME_text       == <<".", "t", "e", "x", "t">>
NAME_text_f     == <<".", "t", "e", "x", "t", ".", "f">>
NAME_data       == <<".", "d", "a", "t", "a">>
NAME_bss        == <<".", "b", "s", "s">>
NAME_ctors      == <<".", "c", "t", "o", "r", "s">>
NAME_rodata     == <<".", "r", "o", "d", "a", "t", "a">>
NAME_kamek      == <<".", "k", "a", "m", "e", "k">>
NAME_rela_text  == <<".", "r", "e", "l", "a", ".", "t", "e", "x", "t">>
NAME_rela_kamek == <<".", "r", "e", "l", "a", ".", "k", "a", "m", "e", "k">>
NAME_rela_data  == <<".", "r", "e", "l", "a", ".", "d", "a", "t", "a">>
NAME_init       == <<".", "i", "n", "i", "t">>
SYM_f           == <<"f">>
SYM_g           == <<"g">>
SYM_w           == <<"w">>
SYM_loc         == <<"l", "o", "c">>
SYM_kHook0      == <<"_", "k", "H", "o", "o", "k", "0">>
SYM_target      == <<"t", "a", "r", "g", "e", "t">>

Hdr(nm, ty, flags, off, size, link, info, align, entsize) ==
    [sh_name |-> nm, sh_type |-> ty, sh_flags |-> flags, sh_addr |-> 0,
     sh_offset |-> off, sh_size |-> size, sh_link |-> link, sh_info |-> info,
     sh_addralign |-> align, sh_entsize |-> entsize]

NullSection ==
    [name |-> <<>>, header |-> Hdr(0, "SHT_NULL", 0, 0, 0, 0, 0, 0, 0),
     data |-> <<>>, symbols |-> <<>>, relocs |-> <<>>]

\* a section holding bytes (SHT_PROGBITS) or only a size (SHT_NOBITS)
Bits(name, nm, ty, flags, off, bytes) ==
    [name |-> name, header |-> Hdr(nm, ty, flags, off, Len(bytes), 0, 0, 4, 0),
     data |-> bytes, symbols |-> <<>>, relocs |-> <<>>]

SymTab(nm, off, link, entsize, symbols) ==
    [name |-> NAME_symtab,
     header |-> Hdr(nm, "SHT_SYMTAB", 0, off, entsize * Len(symbols), link, 1, 4, entsize),
     data |-> <<>>, symbols |-> symbols, relocs |-> <<>>]

StrTab(nm, off, size) ==
    [name |-> NAME_strtab, header |-> Hdr(nm, "SHT_STRTAB", 0, off, size, 0, 0, 1, 0),
     data |-> <<>>, symbols |-> <<>>, relocs |-> <<>>]

Rela(name, nm, off, link, info, relocs) ==
    [name |-> name,
     header |-> Hdr(nm, "SHT_RELA", 0, off, 12 * Len(relocs), link, info, 4, 12),
     data |-> <<>>, symbols |-> <<>>, relocs |-> relocs]

Sym(name, val, size, bind, shndx) ==
    [name |-> name, st_value |-> val, st_size |-> size, bind |-> bind,
     st_shndx |-> shndx]
\* st_shndx is a section index or one of the reserved names
Idx(n)   == [idx |-> n]
SHN_UNDEF == [shn |-> "SHN_UNDEF"]
SHN_ABS   == [shn |-> "SHN_ABS"]
IsIndex(shndx) == "idx" \in DOMAIN shndx
NullSym == Sym(<<>>, 0, 0, "STB_LOCAL", SHN_UNDEF)

\* r_info = (symbol index << 8) | type
Rel(off, sym, ty, addend) ==
    [r_offset |-> off, r_info |-> sym * 256 + ty, r_addend |-> addend]

\* PowerPC instructions: the primary opcode is the top six bits
Opcode(n) == n * 2 ^ (WordBits - 6)
InsnBl    == Opcode(18) + 1
InsnNop   == Opcode(24)
InsnBlr   == Opcode(19) + 20 * 2 ^ (WordBits - 11) + 32

\* a.o style object: code calling g, initialised data, bss
ElfCode ==
    [sections |-> <<
        NullSection,
        Bits(NAME_text, 1, "SHT_PROGBITS", 6, 52, W(InsnBl) \o W(InsnNop) \o W(InsnBlr)),
        Rela(NAME_rela_text, 7, 200, 5, 1,
             <<Rel(0, 3, R_PPC_REL24, 0), Rel(6, 1, R_PPC_ADDR16_LO, 0)>>),
        Bits(NAME_data, 18, "SHT_PROGBITS", 3, 64, <<1, 2, 3, 4, 5>>),
        Bits(NAME_bss, 24, "SHT_NOBITS", 3, 69, Zeros(6)),
        SymTab(29, 72, 6, 16,
               <<NullSym, Sym(SYM_loc, 1, 0, "STB_LOCAL", Idx(3)),
                 Sym(SYM_f, 0, 12, "STB_GLOBAL", Idx(1)),
                 Sym(SYM_g, 0, 0, "STB_GLOBAL", SHN_UNDEF)>>),
        StrTab(37, 136, 9) >>]

\* an object holding one hook descriptor: three arguments, two of them relocated
ElfHook ==
    [sections |-> <<
        NullSection,
        Bits(NAME_kamek, 1, "SHT_PROGBITS", 3, 52,
             W(3) \o W(1) \o W(0) \o W(0) \o W(5)),
        Rela(NAME_rela_kamek, 8, 180, 3, 1,
             <<Rel(8, 2, R_PPC_ADDR32, 0), Rel(12, 2, R_PPC_ADDR32, 4)>>),
        SymTab(20, 72, 4, 16,
               <<NullSym, Sym(SYM_kHook0, 0, 20, "STB_LOCAL", Idx(1)),
                 Sym(SYM_target, 0, 0, "STB_GLOBAL", SHN_UNDEF)>>),
        StrTab(28, 120, 16) >>]

\* an object defining g, a weak w, a constructor entry and a constant
ElfLib ==
    [sections |-> <<
        NullSection,
        Bits(NAME_text, 1, "SHT_PROGBITS", 6, 52, W(InsnBlr)),
        Bits(NAME_ctors, 7, "SHT_PROGBITS", 3, 56, W(0)),
        Bits(NAME_rodata, 14, "SHT_PROGBITS", 2, 60, <<9>>),
        SymTab(22, 64, 5, 16,
               <<NullSym, Sym(SYM_g, 0, 4, "STB_GLOBAL", Idx(1)),
                 Sym(SYM_w, 0, 1, "STB_WEAK", Idx(3)),
                 Sym(SYM_target, TopBit + 64, 0, "STB_GLOBAL", SHN_ABS)>>),
        StrTab(30, 128, 12) >>]

\* an object whose .text header equals ElfLib's, and a long function section
ElfAlt ==
    [sections |-> <<
        NullSection,
        Bits(NAME_text, 1, "SHT_PROGBITS", 6, 52, W(InsnNop)),
        Bits(NAME_text_f, 7, "SHT_PROGBITS", 6, 56, Zeros(26) \o W(InsnBlr)),
        Bits(NAME_init, 15, "SHT_PROGBITS", 6, 86, <<7, 7>>),
        SymTab(21, 88, 5, 16,
               <<NullSym, Sym(SYM_w, 0, 4, "STB_GLOBAL", Idx(1)),
                 Sym(SYM_f, 0, 30, "STB_WEAK", Idx(2))>>),
        StrTab(29, 136, 5) >>]

\* an object without code: only the tables every object carries
ElfEmpty ==
    [sections |-> <<
        NullSection,
        SymTab(1, 52, 2, 16, <<NullSym>>),
        StrTab(9, 68, 1) >>]

\* an object defining g, whose code takes the two halves of an address and
\* whose data holds a pointer
ElfData ==
    [sections |-> <<
        NullSection,
        Bits(NAME_text, 1, "SHT_PROGBITS", 6, 56,
             W(InsnNop) \o W(InsnNop) \o W(InsnBlr)),
        Rela(NAME_rela_text, 7, 200, 5, 1,
             <<Rel(2, 1, R_PPC_ADDR16_HI, 0), Rel(6, 1, R_PPC_ADDR16_HA, 0)>>),
        Bits(NAME_data, 18, "SHT_PROGBITS", 3, 68, W(0)),
        Rela(NAME_rela_data, 24, 224, 5, 3, <<Rel(0, 2, R_PPC_ADDR32, 8)>>),
        SymTab(35, 72, 6, 16,
               <<NullSym, Sym(SYM_g, 0, 12, "STB_GLOBAL", Idx(1)),
                 Sym(SYM_f, 0, 0, "STB_GLOBAL", SHN_UNDEF)>>),
        StrTab(43, 120, 5) >>]

\* an object with two relocations of one half word
ElfTwice ==
    [sections |-> <<
        NullSection,
        Bits(NAME_text, 1, "SHT_PROGBITS", 6, 52, W(InsnNop) \o W(InsnBlr)),
        Rela(NAME_rela_text, 7, 124, 3, 1,
             <<Rel(2, 1, R_PPC_ADDR16_HA, 0), Rel(2, 1, R_PPC_ADDR16_LO, 0)>>),
        SymTab(18, 60, 4, 16,
               <<NullSym, Sym(SYM_f, 0, 8, "STB_GLOBAL", Idx(1))>>),
        StrTab(26, 92, 3) >>]

\* an object of weak definitions of w and f, and a global named loc; its
\* code takes the low half of the address of w
ElfWeak ==
    [sections |-> <<
        NullSection,
        Bits(NAME_text, 1, "SHT_PROGBITS", 6, 52, W(InsnNop) \o W(InsnBlr)),
        Rela(NAME_rela_text, 7, 140, 3, 1, <<Rel(2, 1, R_PPC_ADDR16_LO, 0)>>),
        SymTab(18, 60, 4, 16,
               <<NullSym, Sym(SYM_w, 4, 4, "STB_WEAK", Idx(1)),
                 Sym(SYM_f, 0, 4, "STB_WEAK", Idx(1)),
                 Sym(SYM_loc, 0, 0, "STB_GLOBAL", Idx(1))>>),
        StrTab(26, 124, 9) >>]

\* an object whose .kamek section has a relocation of a half word
ElfBadHook ==
    [sections |-> <<
        NullSection,
        Bits(NAME_kamek, 1, "SHT_PROGBITS", 3, 52,
             W(2) \o W(1) \o W(0) \o W(0)),
        Rela(NAME_rela_kamek, 8, 180, 3, 1,
             <<Rel(8, 1, R_PPC_ADDR32, 0), Rel(12, 1, R_PPC_ADDR16_LO, 0)>>),
        SymTab(20, 72, 4, 16,
               <<NullSym, Sym(SYM_kHook0, 0, 16, "STB_LOCAL", Idx(1))>>),
        StrTab(28, 104, 9) >>]

ElfCatalog == {ElfCode, ElfHook, ElfLib, ElfAlt, ElfEmpty}

Paths == {"a.o", "b.o"}

-----------------------------------------------------------------------------
(* linker.py: class Linker *)

RECURSIVE Join(_)
Join(ints) == IF ints = <<>> THEN <<>> ELSE Str(Head(ints)) \o Join(Tail(ints))

\* "".join(str(data) for data in header.values())
HeaderKey(h) ==
    Str(h.sh_name) \o <<h.sh_type>>
    \o Join(<<h.sh_flags, h.sh_addr, h.sh_offset, h.sh_size, h.sh_link,
              h.sh_info, h.sh_addralign, h.sh_entsize>>)

__get_section_key(section) == HeaderKey(section.header)

\* the fields of a new Linker; zero is KWord(0, ABSOLUTE), built for each
LinkerOf(base, baseAddress, zero) ==
    [mapper       |-> base,
     baseAddress  |-> baseAddress,
     outputStart  |-> zero,
     outputEnd    |-> zero,
     bssStart     |-> zero,
     bssEnd       |-> zero,
     kamekStart   |-> zero,
     kamekEnd     |-> zero,
     _linked      |-> FALSE,
     _modules     |-> <<>>,
     _binaries    |-> <<>>,
     _sectionBases |-> EmptyDict,
     _location    |-> PyInt(0),
     _memory      |-> <<>>,
     _globalSymbols |-> EmptyDict,
     _localSymbols  |-> EmptyDict,
     _symbolTableContents |-> EmptyDict,
     _externSymbols |-> EmptyDict,
     _symbolSizes   |-> EmptyDict,
     _fixups        |-> <<>>,
     _kamekRelocs   |-> EmptyDict,
     _kamekHooks    |-> <<>>,
     \* the exception in flight, "" when none
     exc          |-> "",
     \* history: one entry per section imported, with the cursor at that moment
     imported     |-> <<>>]

\* Linker(base)
NewLinker(base) ==
    LinkerOf(base, KWord(PyInt(TopBit), ABSOLUTE, FALSE),
             KWord(PyInt(0), ABSOLUTE, FALSE))

\* raise e
Fail(L, e) == [L EXCEPT !.exc = e]

\* (section.data_size + 3) & -4
RoundUp4(n) == ((n + 3) \div 4) * 4

\* The body of the loops of _import_sections for a section the prefix selects.
Imported(L, path, i, section, key) ==
    [L EXCEPT
        !._sectionBases = Put(@, key, KWord(L._location, ABSOLUTE, FALSE)),
        !._location = __iadd__(@, PyInt(RoundUp4(section.header.sh_size))),
        !._binaries = Append(@, section.data \o Zeros(4 - (value(L._location) % 4))),
        !.imported  = Append(@, [path |-> path, index |-> i - 1, key |-> key,
                                 cursor |-> value(L._location)])]

ImportSection(L, m, i, prefix) ==
    IF ~StartsWith(L._modules[m].elf.sections[i].name, prefix) THEN L
    ELSE Imported(L, L._modules[m].path, i, L._modules[m].elf.sections[i],
                  __get_section_key(L._modules[m].elf.sections[i]))

\* for elf in self._modules.values(): for section in elf.iter_sections()
RECURSIVE ImportLoop(_, _, _, _)
ImportLoop(L, m, i, prefix) ==
    IF m > Len(L._modules) THEN L
    ELSE IF i > Len(L._modules[m].elf.sections) THEN ImportLoop(L, m + 1, 1, prefix)
    ELSE ImportLoop(ImportSection(L, m, i, prefix), m, i + 1, prefix)

\* an alignment that rounds the cursor down
AlignDown(loc, alignEnd) == __and__(loc, PyInt(-alignEnd))

\* (self._location + (alignEnd-1)) & -alignEnd
AlignUp(loc, alignEnd) ==
    __and__(__add__(loc, PyInt(alignEnd - 1)), PyInt(-alignEnd))

\* if alignEnd > 0 and self._location.value % alignEnd != 0
AlignEnd(L, alignEnd, padding) ==
    IF alignEnd > 0 /\ value(L._location) % alignEnd # 0
    THEN [L EXCEPT
             !._location = AlignUp(@, alignEnd),
             !._binaries = Append(@, Zeros(alignEnd - (value(L._location) % alignEnd)
                                           + padding))]
    ELSE L

\* if imported: L is the linker before the loops and L1 after them
EndImport(L, L1, prefix, alignEnd, padding) ==
    IF Len(L1.imported) = Len(L.imported) THEN L1
    ELSE AlignEnd([L1 EXCEPT
                      !._externSymbols =
                          Put(Put(@, <<"_", "f", "_">> \o Tail(prefix),
                                  value(L._location)),
                              <<"_", "e", "_">> \o Tail(prefix),
                              value(L1._location) - padding),
                      !._location = __iadd__(@, PyInt(padding))],
                  alignEnd, padding)

_import_sections(L, prefix, alignEnd, padding) ==
    EndImport(L, ImportLoop(L, 1, 1, prefix), prefix, alignEnd, padding)

P_init   == <<".", "i", "n", "i", "t">>
P_fini   == <<".", "f", "i", "n", "i">>
P_text   == <<".", "t", "e", "x", "t">>
P_ctors  == <<".", "c", "t", "o", "r", "s">>
P_dtors  == <<".", "d", "t", "o", "r", "s">>
P_rodata == <<".", "r", "o", "d", "a", "t", "a">>
P_data   == <<".", "d", "a", "t", "a">>
P_bss    == <<".", "b", "s", "s">>
P_kamek  == <<".", "k", "a", "m", "e", "k">>

RECURSIVE Concat(_)
Concat(seqs) == IF seqs = <<>> THEN <<>> ELSE Head(seqs) \o Concat(Tail(seqs))

\* The statements of _collect_sections, in order.  Set(f) is
\* self.f.value = self._location.value (bssStart takes outputEnd's value,
\* which is the cursor's).
Import(prefix, alignEnd, padding) ==
    [op |-> "_import_sections", prefix |-> prefix, alignEnd |-> alignEnd,
     padding |-> padding]
Set(field) == [op |-> "set", field |-> field]
Statement(op) == [op |-> op]
CollectStatements ==
    <<Statement("start"), Set("outputStart"),
      Import(P_init, 4, 0), Import(P_fini, 4, 0), Import(P_text, 4, 0),
      Import(P_ctors, 32, 4), Import(P_dtors, 32, 4),
      Import(P_rodata, 32, 0), Import(P_data, 32, 0),
      Set("outputEnd"), Set("bssStart"),
      Import(P_bss, 32, 0),
      Set("bssEnd"), Set("kamekStart"),
      Import(P_kamek, 4, 0),
      Set("kamekEnd"),
      Statement("write")>>

CollectStatement(L, s) ==
    IF s.op = "_import_sections"
    THEN _import_sections(L, s.prefix, s.alignEnd, s.padding)
    ELSE IF s.op = "start"
    THEN [L EXCEPT !._location = KWord(L.baseAddress, ABSOLUTE, FALSE)]
    ELSE IF s.op = "set"
    THEN [L EXCEPT ![s.field] = SetValue(@, __clamp(value(L._location)))]
    ELSE \* for binary in self._binaries: self._memory.write(binary.getvalue())
         [L EXCEPT !._memory = @ \o Concat(L._binaries)]

RECURSIVE CollectFrom(_, _)
CollectFrom(L, k) ==
    IF L.exc # "" \/ k > Len(CollectStatements) THEN L
    ELSE CollectFrom(CollectStatement(L, CollectStatements[k]), k + 1)

_collect_sections(L) == CollectFrom(L, 1)

-----------------------------------------------------------------------------
(* linker.py: symbol tables *)

\* a dict keyed by KWords finds an entry by hash and ==
DictKey(w) == <<__hash__(w), value(w)>>

\* elf.get_section(i), elf.num_sections()
get_section(elf, i) == elf.sections[i + 1]
num_sections(elf)   == Len(elf.sections)

\* an ordered dict as a sequence of entries [name, sym]
HasName(entries, name) == \E k \in DOMAIN entries : entries[k].name = name
Lookup(entries, name) ==
    entries[CHOOSE k \in DOMAIN entries : entries[k].name = name].sym

\* Linker.Symbol(address, size, isWeak); an exception raised while the
\* address was built is the outcome
Symbol(address, size, isWeak) ==
    IF Raised(address) THEN address
    ELSE [address |-> KWord(address, address.type, FALSE), size |-> size,
          isWeak |-> isWeak]

\* The end of the loop body of _parse_symbol_table: enter the symbol by
\* binding.  S holds the linker, the _locals of the module and the
\* _symbolNames so far; sym is the Symbol built for addr, and sized the
\* linker once self._symbolSizes[addr] = st_size is done.
\* the binding rules with a weak definition taking the entry whatever holds it
BindWeakOver(S, name, bind, sym, sized) ==
    IF bind = "STB_LOCAL"
    THEN IF HasName(S.locals, name)
         THEN [S EXCEPT !.L = Fail(@, "InvalidDataException")]
         ELSE [S EXCEPT !.locals = Append(@, [name |-> name, sym |-> sym]),
                        !.L = sized]
    ELSE IF bind = "STB_GLOBAL"
    THEN IF name \in DOMAIN S.L._globalSymbols /\ ~S.L._globalSymbols[name].isWeak
         THEN [S EXCEPT !.L = Fail(@, "InvalidDataException")]
         ELSE [S EXCEPT !.L = [sized EXCEPT !._globalSymbols = Put(@, name, sym)]]
    ELSE IF bind = "STB_WEAK"
    THEN [S EXCEPT !.L = [sized EXCEPT !._globalSymbols = Put(@, name, sym)]]
    ELSE S

Bind(S, name, bind, sym, sized) ==
    IF bind = "STB_LOCAL"
    THEN IF HasName(S.locals, name)
         THEN [S EXCEPT !.L = Fail(@, "InvalidDataException")]
         ELSE [S EXCEPT !.locals = Append(@, [name |-> name, sym |-> sym]),
                        !.L = sized]
    ELSE IF bind = "STB_GLOBAL"
    THEN IF name \in DOMAIN S.L._globalSymbols /\ ~S.L._globalSymbols[name].isWeak
         THEN [S EXCEPT !.L = Fail(@, "InvalidDataException")]
         ELSE [S EXCEPT !.L = [sized EXCEPT !._globalSymbols = Put(@, name, sym)]]
    ELSE IF bind = "STB_WEAK" /\ name \notin DOMAIN S.L._globalSymbols
    THEN [S EXCEPT !.L = [sized EXCEPT !._globalSymbols = Put(@, name, sym)]]
    ELSE S

BindSymbol(S, symbol, addr) ==
    IF Raised(addr) THEN [S EXCEPT !.L = Fail(@, addr.exc)]
    ELSE Bind(S, symbol.name, symbol.bind,
              Symbol(addr, symbol.st_size, symbol.bind = "STB_WEAK"),
              [S.L EXCEPT !._symbolSizes = Put(@, DictKey(addr), symbol.st_size)])

\* KWord(w, _type) for w the outcome of an operator
Retyped(w, _type) == IF Raised(w) THEN w ELSE KWord(w, _type, FALSE)

\* isinstance(st_shndx, int): the symbol refers to a section
ParseReference(S, symbol, _refkey) ==
    IF _refkey \notin DOMAIN S.L._sectionBases THEN S
    ELSE BindSymbol(S, symbol,
                    Retyped(__add__(S.L._sectionBases[_refkey],
                                    PyInt(symbol.st_value)),
                            S.L._sectionBases[_refkey].type))

\* The loop body of _parse_symbol_table for one symbol; S has its name.
ParseNamed(S, elf, symbol) ==
    IF symbol.name = <<>> \/ symbol.st_shndx = SHN_UNDEF THEN S
    ELSE IF IsIndex(symbol.st_shndx)
    THEN ParseReference(S, symbol,
             __get_section_key(get_section(elf, symbol.st_shndx.idx)))
    ELSE IF symbol.st_shndx = SHN_ABS
    THEN BindSymbol(S, symbol, KWord(PyInt(symbol.st_value), ABSOLUTE, FALSE))
    ELSE [S EXCEPT !.L = Fail(@, "InvalidDataException")]

ParseSymbol(S, elf, symbol) ==
    ParseNamed([S EXCEPT !.names = Append(@, symbol.name)], elf, symbol)

RECURSIVE ParseSymbols(_, _, _, _)
ParseSymbols(S, elf, symbols, k) ==
    IF k > Len(symbols) \/ S.L.exc # "" THEN S
    ELSE ParseSymbols(ParseSymbol(S, elf, symbols[k]), elf, symbols, k + 1)

IsSymbolTable(section) == section.header.sh_type \in {"SHT_SYMTAB", "SHT_DYNSYM"}
IsStringTable(section) == section.header.sh_type = "SHT_STRTAB"

\* self._localSymbols[elfpath] = _locals
StoreLocals(S, elfpath) ==
    IF S.L.exc # "" THEN S
    ELSE [S EXCEPT !.L._localSymbols = Put(@, elfpath, S.locals)]

\* returns S with names = _symbolNames
_parse_symbol_table(S, elfpath, elf, symTab, strTab) ==
    IF symTab.header.sh_entsize # 16
    THEN [S EXCEPT !.L = Fail(@, "InvalidDataException")]
    ELSE IF ~IsStringTable(strTab)
    THEN [S EXCEPT !.L = Fail(@, "InvalidDataException")]
    ELSE StoreLocals(ParseSymbols([S EXCEPT !.names = <<>>], elf, symTab.symbols, 1),
                     elfpath)

\* self._symbolTableContents[key] = the names _parse_symbol_table returned
StoreNames(S, key) ==
    IF S.L.exc # "" THEN S
    ELSE [S EXCEPT !.L._symbolTableContents = Put(@, key, S.names)]

\* The body of the inner loop of _build_symbol_tables for one symbol table.
BuildSymbolTable(S, path, elf, section) ==
    IF section.header.sh_link <= 0 \/ section.header.sh_link >= num_sections(elf)
    THEN [S EXCEPT !.L = Fail(@, "InvalidTableLinkageException")]
    ELSE StoreNames(_parse_symbol_table(S, path, elf, section,
                                        get_section(elf, section.header.sh_link)),
                    __get_section_key(section))

RECURSIVE BuildLoop(_, _, _)
BuildLoop(S, m, i) ==
    IF S.L.exc # "" \/ m > Len(S.L._modules) THEN S
    ELSE IF i > Len(S.L._modules[m].elf.sections)
    THEN BuildLoop([S EXCEPT !.locals = <<>>], m + 1, 1)
    ELSE IF ~IsSymbolTable(S.L._modules[m].elf.sections[i])
    THEN BuildLoop(S, m, i + 1)
    ELSE BuildLoop(BuildSymbolTable(S, S.L._modules[m].path, S.L._modules[m].elf,
                                    S.L._modules[m].elf.sections[i]),
                   m, i + 1)

_build_symbol_tables(L) ==
    BuildLoop([L |-> L, locals |-> <<>>, names |-> <<>>], 1, 1).L

\* a lookup that asks the globals before the locals of the module
ResolveGlobalFirst(L, elfpath, name) ==
    IF elfpath \notin DOMAIN L._localSymbols THEN Raise("KeyError")
    ELSE IF name \in DOMAIN L._globalSymbols THEN L._globalSymbols[name]
    ELSE IF HasName(L._localSymbols[elfpath], name)
    THEN Lookup(L._localSymbols[elfpath], name)
    ELSE IF name \in DOMAIN L._externSymbols
    THEN Symbol(KWord(PyInt(L._externSymbols[name]), ABSOLUTE, FALSE), 0, FALSE)
    ELSE Raise("InvalidDataException")

_resolve_symbol(L, elfpath, name) ==
    IF elfpath \notin DOMAIN L._localSymbols THEN Raise("KeyError")
    ELSE IF HasName(L._localSymbols[elfpath], name)
    THEN Lookup(L._localSymbols[elfpath], name)
    ELSE IF name \in DOMAIN L._globalSymbols THEN L._globalSymbols[name]
    ELSE IF name \in DOMAIN L._externSymbols
    THEN Symbol(KWord(PyInt(L._externSymbols[name]), ABSOLUTE, FALSE), 0, FALSE)
    ELSE Raise("InvalidDataException")

-----------------------------------------------------------------------------
(* linker.py: relocations *)

\* Linker.RelocFixup(reloctype, source, dest)
RelocFixup(reloctype, source, dest) ==
    [type |-> reloctype, source |-> KWord(source, source.type, FALSE),
     dest |-> KWord(dest, dest.type, FALSE)]

\* a hook section that consumes a relocation of any type
KamekUseAny(L, _type, source, dest) ==
    IF __lt__(source, L.kamekStart).bool \/ __ge__(source, L.kamekEnd).bool
    THEN [L |-> L, used |-> FALSE]
    ELSE [L |-> [L EXCEPT !._kamekRelocs = Put(@, DictKey(source), dest)],
          used |-> TRUE]

\* returns the linker, with exc set when it raises, and the bool it returns
_kamek_use_reloc(L, _type, source, dest) ==
    IF __lt__(source, L.kamekStart).bool \/ __ge__(source, L.kamekEnd).bool
    THEN [L |-> L, used |-> FALSE]
    ELSE IF _type # R_PPC_ADDR32
    THEN [L |-> Fail(L, "InvalidOperationException"), used |-> FALSE]
    ELSE [L |-> [L EXCEPT !._kamekRelocs = Put(@, DictKey(source), dest)],
          used |-> TRUE]

\* if not self._kamek_use_reloc(...): self._fixups.append(...); use is what
\* _kamek_use_reloc returned
AppendFixup(L, reloc, source, dest, use) ==
    IF use.L.exc # "" \/ use.used THEN use.L
    ELSE [L EXCEPT !._fixups = Append(@, RelocFixup(reloc, source, dest))]

UseOrFix(L, reloc, source, dest) ==
    IF Raised(dest) THEN Fail(L, dest.exc)
    ELSE AppendFixup(L, reloc, source, dest,
                     _kamek_use_reloc(L, reloc, source, dest))

\* sym is what _resolve_symbol returned for the name of the relocation
Fixup(L, relocation, source, sym) ==
    IF Raised(source) THEN Fail(L, source.exc)
    ELSE IF Raised(sym) THEN Fail(L, sym.exc)
    ELSE UseOrFix(L, relocation.r_info % 256, source,
                  KWord(PyInt(value(sym.address) + relocation.r_addend),
                        ABSOLUTE, FALSE))

\* symName = self._symbolTableContents[key of symTab][symIndex], and on
Relocate(L, elfpath, relocation, _symkey, names) ==
    IF relocation.r_info \div 256 >= Len(names) THEN Fail(L, "IndexError")
    ELSE Fixup(L, relocation,
               KWord(PyInt(value(L._sectionBases[_symkey]) + relocation.r_offset),
                     ABSOLUTE, FALSE),
               _resolve_symbol(L, elfpath, names[(relocation.r_info \div 256) + 1]))

\* The loop body of _process_rela_section for one relocation; _symkey is the
\* key of the section it patches, tabkey the key of the symbol table.
ProcessRelocation(L, elfpath, _symkey, tabkey, relocation) ==
    IF relocation.r_info \div 256 = 0 THEN Fail(L, "InvalidDataException")
    ELSE IF _symkey \notin DOMAIN L._sectionBases THEN L
    ELSE IF tabkey \notin DOMAIN L._symbolTableContents THEN Fail(L, "KeyError")
    ELSE Relocate(L, elfpath, relocation, _symkey, L._symbolTableContents[tabkey])

RECURSIVE RelocationLoop(_, _, _, _, _, _)
RelocationLoop(L, elfpath, _symkey, tabkey, relocs, k) ==
    IF k > Len(relocs) \/ L.exc # "" THEN L
    ELSE RelocationLoop(ProcessRelocation(L, elfpath, _symkey, tabkey, relocs[k]),
                        elfpath, _symkey, tabkey, relocs, k + 1)

_process_rela_section(L, elfpath, elf, relocs, section, symTab) ==
    IF relocs.header.sh_entsize # 12 THEN Fail(L, "InvalidDataException")
    ELSE IF ~IsSymbolTable(symTab) THEN Fail(L, "InvalidDataException")
    ELSE RelocationLoop(L, elfpath, __get_section_key(section),
                        __get_section_key(symTab), relocs.relocs, 1)

\* The body of the second loop of _process_relocations for one SHT_RELA section.
ProcessRela(L, path, elf, section) ==
    IF section.header.sh_info <= 0 \/ section.header.sh_info >= num_sections(elf)
    THEN Fail(L, "InvalidDataException")
    ELSE IF section.header.sh_link <= 0 \/ section.header.sh_link >= num_sections(elf)
    THEN Fail(L, "InvalidDataException")
    ELSE _process_rela_section(L, path, elf, section,
                               get_section(elf, section.header.sh_info),
                               get_section(elf, section.header.sh_link))

RECURSIVE RelaLoop(_, _, _)
RelaLoop(L, m, i) ==
    IF L.exc # "" \/ m > Len(L._modules) THEN L
    ELSE IF i = 1 /\ \E k \in DOMAIN L._modules[m].elf.sections :
                         L._modules[m].elf.sections[k].header.sh_type = "SHT_REL"
    THEN Fail(L, "InvalidDataException")
    ELSE IF i > Len(L._modules[m].elf.sections) THEN RelaLoop(L, m + 1, 1)
    ELSE IF L._modules[m].elf.sections[i].header.sh_type # "SHT_RELA"
    THEN RelaLoop(L, m, i + 1)
    ELSE RelaLoop(ProcessRela(L, L._modules[m].path, L._modules[m].elf,
                              L._modules[m].elf.sections[i]),
                  m, i + 1)

_process_relocations(L) == RelaLoop(L, 1, 1)

-----------------------------------------------------------------------------
(* linker.py: hooks.  ioreader.py and kmhooks.py are not among the sources: *)
(* read_uint32 reads four bytes as a big-endian unsigned word, HookData is  *)
(* the pair of a hook type and its argument words.                          *)

\* memory.seek(pos); read_uint32(memory)
read_uint32(buf, pos) ==
    IF pos < 0 THEN Raise("ValueError")
    ELSE IF pos + 4 > Len(buf) THEN Raise("struct.error")
    ELSE Ok(((buf[pos + 1] * Byte + buf[pos + 2]) * Byte + buf[pos + 3]) * Byte
            + buf[pos + 4])

HookData(_type, args) == [type |-> _type, args |-> args]

\* KWord(read_uint32(self._memory), KWord.Types.VALUE)
ValueWord(w) == IF Raised(w) THEN w ELSE KWord(PyInt(w.v), VALUE, FALSE)

\* the argument at argAddr: the relocated word, or the word in memory
HookArg(L, argAddr) ==
    IF DictKey(argAddr) \in DOMAIN L._kamekRelocs
    THEN L._kamekRelocs[DictKey(argAddr)]
    ELSE ValueWord(read_uint32(L._memory, value(argAddr) - value(L.baseAddress)))

\* args.append(arg)
AppendArg(args, arg) == IF Raised(arg) THEN arg ELSE Ok(Append(args.v, arg))

\* for i in range(argCount): args so far, or the exception raised
RECURSIVE HookArgs(_, _, _, _, _)
HookArgs(L, cmdAddr, argCount, i, args) ==
    IF Raised(args) \/ i >= argCount THEN args
    ELSE HookArgs(L, cmdAddr, argCount, i + 1,
                  AppendArg(args, HookArg(L, __add__(cmdAddr, PyInt(8 + i * 4)))))

\* self._kamekHooks.append(HookData(_type, args))
AppendHook(L, _type, args) ==
    IF Raised(args) THEN Fail(L, args.exc)
    ELSE [L EXCEPT !._kamekHooks = Append(@, HookData(_type, args.v))]

\* argCount and _type are the two words read at the hook's address
ReadHook(L, cmdAddr, argCount, _type) ==
    IF Raised(argCount) THEN Fail(L, argCount.exc)
    ELSE IF Raised(_type) THEN Fail(L, _type.exc)
    ELSE AppendHook(L, _type.v, HookArgs(L, cmdAddr, argCount.v, 0, Ok(<<>>)))

\* The loop body of _process_hooks for one local symbol.
ProcessHook(L, entry) ==
    IF ~StartsWith(entry.name, <<"_", "k", "H", "o", "o", "k">>) THEN L
    ELSE ReadHook(L, entry.sym.address,
                  read_uint32(L._memory,
                              value(entry.sym.address) - value(L.baseAddress)),
                  read_uint32(L._memory,
                              value(entry.sym.address) - value(L.baseAddress) + 4))

RECURSIVE HookLoop(_, _, _)
HookLoop(L, m, k) ==
    IF L.exc # "" \/ m > Len(L._modules) THEN L
    ELSE IF L._modules[m].path \notin DOMAIN L._localSymbols THEN Fail(L, "KeyError")
    ELSE IF k > Len(L._localSymbols[L._modules[m].path]) THEN HookLoop(L, m + 1, 1)
    ELSE HookLoop(ProcessHook(L, L._localSymbols[L._modules[m].path][k]), m, k + 1)

_process_hooks(L) == HookLoop(L, 1, 1)

-----------------------------------------------------------------------------
(* linker.py: linking *)

\* a call's outcome: the object afterwards and what the call returned or raised
Outcome(L) ==
    [L   |-> [L EXCEPT !.exc = ""],
     out |-> IF L.exc = "" THEN Returned ELSE Raise(L.exc)]

\* for key in symbolData: self._externSymbols[key] = self.remap(symbolData[key])
RemapExterns(L, symbolData) ==
    [L EXCEPT !._externSymbols =
        [k \in DOMAIN @ \cup DOMAIN symbolData |->
            IF k \in DOMAIN symbolData THEN remap(L.mapper, symbolData[k])
            ELSE @[k]]]

\* the four phases in order; the loops of a phase end at once while an
\* exception is in flight
Phases(L) ==
    _process_hooks(_process_relocations(_build_symbol_tables(_collect_sections(L))))

\* a link that does not look at _linked
LinkWithoutGuard(L, symbolData) ==
    Outcome(Phases(RemapExterns([L EXCEPT !._linked = TRUE], symbolData)))

_do_link(L, symbolData) ==
    IF L._linked THEN Outcome(Fail(L, "AlreadyLinkedException"))
    ELSE Outcome(Phases(RemapExterns([L EXCEPT !._linked = TRUE], symbolData)))

None == [none |-> TRUE]

\* b is what self.baseAddress is to be: a word, or the exception KWord raised
LinkAt(L, symbolData, b) ==
    IF Raised(b) THEN Outcome(Fail(L, b.exc))
    ELSE _do_link([L EXCEPT !.baseAddress = b], symbolData)

\* baseAddr is None or an int
link_static(L, symbolData, baseAddr) ==
    LinkAt(L, symbolData,
           IF baseAddr # None /\ baseAddr.int # 0
           THEN KWord(PyInt(remap(L.mapper, baseAddr.int)), ABSOLUTE, FALSE)
           ELSE L.baseAddress)

link_dynamic(L, symbolData) ==
    _do_link([L EXCEPT !.baseAddress = KWord(PyInt(0), RELATIVE, FALSE)], symbolData)

\* elf is the path with the ELFFile read from it
add_module(L, path, elf) ==
    IF L._linked THEN Outcome(Fail(L, "AlreadyLinkedException"))
    ELSE IF \E k \in DOMAIN L._modules : L._modules[k].path = path
    THEN Outcome(Fail(L, "AlreadyExistsException"))
    ELSE Outcome([L EXCEPT !._modules = Append(@, [path |-> path, elf |-> elf])])

-----------------------------------------------------------------------------
(* ioreader.py is not among the sources: write_uint16 and write_uint32 put  *)
(* a value at the position of the stream as two and four big-endian bytes,  *)
(* as read_uint16 and read_uint32 take them.  A BytesIO refuses a negative  *)
(* position, and a write past its end fills the gap with zeros.             *)

HalfMax == 2 ^ HalfBits - 1       \* 0xFFFF
\* the two bytes of a big-endian half word
Half(n) == <<n \div Byte, n % Byte>>

\* buf once bytes are written at pos
Written(buf, pos, bytes) ==
    [k \in 1..(IF pos + Len(bytes) > Len(buf) THEN pos + Len(bytes) ELSE Len(buf)) |->
        IF k > pos /\ k <= pos + Len(bytes) THEN bytes[k - pos]
        ELSE IF k <= Len(buf) THEN buf[k]
        ELSE 0]

read_uint16(buf, pos) ==
    IF pos < 0 THEN Raise("ValueError")
    ELSE IF pos + 2 > Len(buf) THEN Raise("struct.error")
    ELSE Ok(buf[pos + 1] * Byte + buf[pos + 2])

write_uint32(buf, pos, val) ==
    IF pos < 0 THEN Raise("ValueError")
    ELSE IF val < 0 \/ val > WordMax THEN Raise("struct.error")
    ELSE Ok(Written(buf, pos, W(val)))

write_uint16(buf, pos, val) ==
    IF pos < 0 THEN Raise("ValueError")
    ELSE IF val < 0 \/ val > HalfMax THEN Raise("struct.error")
    ELSE Ok(Written(buf, pos, Half(val)))

-----------------------------------------------------------------------------
(* kmcommands.py: the commands *)

\* Command.KCmdID; Addr32 .. Rel24 are the relocation types R_PPC_*
WritePointer     == 1
Write32          == 32
Write16          == 33
Write8           == 34
CondWritePointer == 35
CondWrite32      == 36
CondWrite16      == 37
CondWrite8       == 38
Branch           == 64
BranchLink       == 65

\* WriteCommand.Type
Pointer == 1
Value32 == 2
Value16 == 3
Value8  == 4

\* 0x3FFFFFC, the 24-bit displacement of a branch, and 0xFC000003, the bits
\* of the instruction around it
DisplacementMask == 2 ^ (WordBits - 6) - 4
OpcodeMask       == Opcode(63) + 3

BranchCommand(source, target, isLink) ==
    [cls |-> "BranchCommand", id |-> IF isLink THEN BranchLink ELSE Branch,
     address |-> source, target |-> target]

RelocCommand(source, target, reloc) ==
    [cls |-> "RelocCommand", id |-> reloc, address |-> source, target |-> target]

PatchExitCommand(source, target) ==
    [cls |-> "PatchExitCommand", id |-> Branch, address |-> source,
     target |-> target, endAddress |-> KWord(PyInt(0), ABSOLUTE, FALSE)]

id_from_type(_type, isConditional) ==
    IF isConditional
    THEN CASE _type = Pointer -> Ok(CondWritePointer)
           [] _type = Value32 -> Ok(CondWrite32)
           [] _type = Value16 -> Ok(CondWrite16)
           [] _type = Value8  -> Ok(CondWrite8)
           [] OTHER -> Raise("NotImplementedError")
    ELSE CASE _type = Pointer -> Ok(WritePointer)
           [] _type = Value32 -> Ok(Write32)
           [] _type = Value16 -> Ok(Write16)
           [] _type = Value8  -> Ok(Write8)
           [] OTHER -> Raise("NotImplementedError")

\* kId is what id_from_type returned
WriteCommandOf(kId, address, _value, valueType, original) ==
    IF Raised(kId) THEN kId
    ELSE [cls |-> "WriteCommand", id |-> kId.v, address |-> address,
          value |-> _value, valueType |-> valueType, original |-> original]

\* original is None, a KWord or an int; original != None on a KWord is its
\* __ne__, whose __retrieve_value refuses None; "if original" keeps an int
\* that is not 0
WriteCommand(address, _value, valueType, original) ==
    IF IsKWord(original) THEN Raise("TypeError")
    ELSE WriteCommandOf(id_from_type(valueType, original # None), address, _value,
                        valueType,
                        IF original = None THEN None
                        ELSE IF original.int # 0 THEN original ELSE None)

is_equal_reloc_types(cmd) == cmd.address.type = cmd.target.type

is_equal_reloc_absolute(cmd) ==
    is_equal_reloc_types(cmd) /\ is_absolute_addr(cmd.target)

is_equal_reloc_relative(cmd) ==
    is_equal_reloc_types(cmd) /\ is_relative_addr(cmd.target)

-----------------------------------------------------------------------------
(* kamek.py: class KamekBinary *)

\* KamekBinary(): rawCode is the content of the BytesIO, commands the dict
\* in the order of insertion, mapper None or the linker loaded from
KamekBinary ==
    [rawCode     |-> <<>>,
     baseAddr    |-> PyInt(TopBit),
     bssSize     |-> KWord(PyInt(0), VALUE, FALSE),
     sbssSize    |-> KWord(PyInt(0), VALUE, FALSE),
     sbss2Size   |-> KWord(PyInt(0), VALUE, FALSE),
     commands    |-> <<>>,
     hooks       |-> <<>>,
     symbolSizes |-> EmptyDict,
     mapper      |-> None,
     \* the exception in flight, "" when none
     exc         |-> ""]

codeSize(K) == Len(K.rawCode)

\* address - self.baseAddr.value; baseAddr is an int until a load sets it
Offset(K, address) ==
    IF IsKWord(K.baseAddr) THEN Ok(address - value(K.baseAddr))
    ELSE Raise("AttributeError")

ReadHalf(buf, off) == IF Raised(off) THEN off ELSE read_uint16(buf, off.v)
ReadWord(buf, off) == IF Raised(off) THEN off ELSE read_uint32(buf, off.v)
read_u16(K, address) == ReadHalf(K.rawCode, Offset(K, address))
read_u32(K, address) == ReadWord(K.rawCode, Offset(K, address))

\* the binary once the stream holds buf, or the exception the write raised
Stored(K, buf) ==
    IF Raised(buf) THEN Fail(K, buf.exc) ELSE [K EXCEPT !.rawCode = buf.v]
WriteHalf(buf, off, val) ==
    IF Raised(off) THEN off ELSE write_uint16(buf, off.v, val)
WriteWord(buf, off, val) ==
    IF Raised(off) THEN off ELSE write_uint32(buf, off.v, val)
write_u16(K, address, val) == Stored(K, WriteHalf(K.rawCode, Offset(K, address), val))
write_u32(K, address, val) == Stored(K, WriteWord(K.rawCode, Offset(K, address), val))

\* self.baseAddr + self.codeSize
CodeEnd(K) ==
    IF IsKWord(K.baseAddr) THEN __add__(K.baseAddr, PyInt(codeSize(K)))
    ELSE PyInt(K.baseAddr.int + codeSize(K))

contains(K, addr) ==
    __ge__(addr, K.baseAddr).bool /\ __lt__(addr, CodeEnd(K)).bool

\* a dict keyed by KWords, as the sequence of its entries [key, cmd]
HasKey(d, w) == \E k \in DOMAIN d : d[k].key = DictKey(w)
SetItem(d, w, cmd) ==
    IF HasKey(d, w)
    THEN [k \in DOMAIN d |-> IF d[k].key = DictKey(w)
                             THEN [key |-> d[k].key, cmd |-> cmd] ELSE d[k]]
    ELSE Append(d, [key |-> DictKey(w), cmd |-> cmd])

get_symbol_size(K, addr) ==
    IF DictKey(addr) \in DOMAIN K.symbolSizes THEN Ok(K.symbolSizes[DictKey(addr)])
    ELSE Raise("KeyError")

-----------------------------------------------------------------------------
(* kmcommands.py: apply.  What cmd.apply(f) gives is the binary afterwards, *)
(* with exc set when it raised, and the value it returned.                  *)

Folded(K)   == [K |-> K, ret |-> [bool |-> TRUE]]
Deferred(K) == [K |-> K, ret |-> [bool |-> FALSE]]
\* a method that ends without a return statement returns None
Ended(K)    == [K |-> K, ret |-> Returned]

\* not x
Not(ret) == IF "bool" \in DOMAIN ret THEN ~ret.bool ELSE TRUE

\* (delta & 0x3FFFFFC) | (f.read_u32(self.address.value) & 0xFC000003);
\* old is what read_u32 returned
Rel24Insn(delta, old) ==
    IF Raised(old) THEN old
    ELSE __or__(__and__(delta, PyInt(DisplacementMask)),
                PyInt(BitAnd(old.v, Ok(OpcodeMask)).v))

\* f.write_u32(self.address.value, insn.value)
WriteInsn(f, address, insn) ==
    IF Raised(insn) THEN Fail(f, insn.exc) ELSE write_u32(f, address, value(insn))

\* (self.target.value >> 16) & 0xFFFF
High(target) == BitAnd(PyRShift(value(target), Ok(HalfBits)).v, Ok(HalfMax)).v

\* ((self.target.value >> 16) + 1) & 0xFFFF if (self.target.value >> 16) & 0x8000 != 0
\* else (self.target.value >> 16) & 0xFFFF
Adjusted(target) ==
    IF BitAnd(PyRShift(value(target), Ok(HalfBits)).v, Ok(2 ^ (HalfBits - 1))).v # 0
    THEN BitAnd(PyRShift(value(target), Ok(HalfBits)).v + 1, Ok(HalfMax)).v
    ELSE High(target)

RelocCommand_apply(cmd, f) ==
    IF cmd.id = R_PPC_REL24
    THEN IF is_equal_reloc_types(cmd) /\ ~is_value(cmd.target)
         THEN Folded(WriteInsn(f, value(cmd.address),
                               Rel24Insn(__sub__(cmd.target, cmd.address),
                                         read_u32(f, value(cmd.address)))))
         ELSE Deferred(f)
    ELSE IF cmd.id = R_PPC_ADDR32
    THEN IF is_absolute_addr(cmd.target)
         THEN Folded(write_u32(f, value(cmd.address), value(cmd.target)))
         ELSE Deferred(f)
    ELSE IF cmd.id = R_PPC_ADDR16_LO
    THEN IF is_absolute_addr(cmd.target)
         THEN Folded(write_u16(f, value(cmd.address),
                               BitAnd(value(cmd.target), Ok(HalfMax)).v))
         ELSE Deferred(f)
    ELSE IF cmd.id = R_PPC_ADDR16_HI
    THEN IF is_absolute_addr(cmd.target)
         THEN Folded(write_u16(f, value(cmd.address), High(cmd.target)))
         ELSE Deferred(f)
    ELSE IF cmd.id = R_PPC_ADDR16_HA
    THEN IF is_absolute_addr(cmd.target)
         THEN Folded(write_u16(f, value(cmd.address), Adjusted(cmd.target)))
         ELSE Deferred(f)
    ELSE Deferred(Fail(f, "NotImplementedError"))

\* insn | (delta.value & 0x3FFFFFC)
_generate_instruction(cmd) ==
    BitOr(IF cmd.id = BranchLink THEN Opcode(18) + 1 ELSE Opcode(18),
          BitAnd(value(__sub__(cmd.target, cmd.address)), Ok(DisplacementMask))).v

BranchCommand_apply(cmd, f) ==
    IF is_equal_reloc_absolute(cmd) /\ contains(f, cmd.address)
    THEN Ended(write_u32(f, value(cmd.address), _generate_instruction(cmd)))
    ELSE Ended(f)

WriteCommand_apply(cmd, f) == Deferred(f)

\* f.read_u32(address) handed a KWord: address - self.baseAddr.value is then
\* a KWord, and the seek of a BytesIO takes an int
SeekWord(where) == IF Raised(where) THEN where ELSE Raise("TypeError")

ReadAt(K, address) ==
    IF ~IsKWord(K.baseAddr) THEN Raise("AttributeError")
    ELSE SeekWord(__sub__(address, PyInt(value(K.baseAddr))))

\* 0xFC00FFFF and 0x4C000020: the opcode and the low bits of a bclr
ReturnMask == Opcode(63) + 2 ^ (WordBits - 16) - 1
InsnBclr   == Opcode(19) + 32

\* the end of PatchExitCommand.apply, once the scan is over: instrLoc is
\* self.address, which the scan advanced in place
PatchWritten(cmd, f, funcEnd) ==
    IF is_absolute_addr(cmd.target) /\ cmd.address.type = cmd.target.type
       /\ cmd.target.type = funcEnd.type /\ contains(f, cmd.address)
    THEN Folded(write_u32(f, value(funcEnd),
                          BitOr(Opcode(18),
                                BitAnd(value(__sub__(cmd.target, cmd.address)),
                                       Ok(DisplacementMask))).v))
    ELSE Deferred(f)

\* the while loop: insn is what f.read_u32(instrLoc) returned
RECURSIVE PatchScan(_, _, _, _)
PatchScan(cmd, f, funcEnd, insn) ==
    IF ~__lt__(cmd.address, funcEnd).bool THEN PatchWritten(cmd, f, funcEnd)
    ELSE IF Raised(insn) THEN Deferred(Fail(f, insn.exc))
    ELSE IF BitAnd(insn.v, Ok(ReturnMask)).v = InsnBclr
    THEN Deferred(Fail(f, "InvalidOperationException"))
    ELSE PatchScan([cmd EXCEPT !.address = __iadd__(@, PyInt(4))], f, funcEnd,
                   ReadAt(f, __iadd__(cmd.address, PyInt(4))))

\* last is what f.read_u32(funcEnd) returned
PatchChecked(cmd, f, funcEnd, last) ==
    IF Raised(last) THEN Deferred(Fail(f, last.exc))
    ELSE IF last.v # InsnBlr THEN Deferred(Fail(f, "InvalidOperationException"))
    ELSE PatchScan(cmd, f, funcEnd, ReadAt(f, cmd.address))

PatchEnd(cmd, f, funcSize, funcEnd) ==
    IF Raised(funcEnd) THEN Deferred(Fail(f, funcEnd.exc))
    ELSE IF funcSize < 4 THEN Deferred(Fail(f, "InvalidOperationException"))
    ELSE PatchChecked(cmd, f, funcEnd, ReadAt(f, funcEnd))

\* funcSize is what f.get_symbol_size(self.address) returned
PatchSized(cmd, f, funcSize) ==
    IF Raised(funcSize) THEN Deferred(Fail(f, funcSize.exc))
    ELSE PatchEnd(cmd, f, funcSize.v, __add__(cmd.address, PyInt(funcSize.v - 4)))

PatchExitCommand_apply(cmd, f) ==
    PatchSized(cmd, f, get_symbol_size(f, cmd.address))

\* cmd.apply(f) by the class of cmd
apply(cmd, f) ==
    IF cmd.cls = "RelocCommand" THEN RelocCommand_apply(cmd, f)
    ELSE IF cmd.cls = "BranchCommand" THEN BranchCommand_apply(cmd, f)
    ELSE IF cmd.cls = "PatchExitCommand" THEN PatchExitCommand_apply(cmd, f)
    ELSE WriteCommand_apply(cmd, f)

-----------------------------------------------------------------------------
(* kamek.py: building and folding the commands *)

\* The loop body of add_relocs_as_commands.
AddReloc(K, rel) ==
    IF HasKey(K.commands, rel.source) THEN Fail(K, "InvalidOperationException")
    ELSE [K EXCEPT !.commands =
             SetItem(@, rel.source, RelocCommand(rel.source, rel.dest, rel.type))]

RECURSIVE RelocLoop(_, _, _)
RelocLoop(K, relocs, k) ==
    IF K.exc # "" \/ k > Len(relocs) THEN K
    ELSE RelocLoop(AddReloc(K, relocs[k]), relocs, k + 1)

add_relocs_as_commands(K, relocs) == RelocLoop(K, relocs, 1)

\* The loop body of apply_hook.
AddCommand(K, cmd) ==
    IF HasKey(K.commands, cmd.address) THEN Fail(K, "InvalidOperationException")
    ELSE [K EXCEPT !.commands = SetItem(@, cmd.address, cmd)]

RECURSIVE CommandLoop(_, _, _)
CommandLoop(K, cmds, k) ==
    IF K.exc # "" \/ k > Len(cmds) THEN K
    ELSE CommandLoop(AddCommand(K, cmds[k]), cmds, k + 1)

\* self.hooks.append(hook), once the loop has ended
AppendHookOf(K, hook) ==
    IF K.exc # "" THEN K ELSE [K EXCEPT !.hooks = Append(@, hook)]

\* hook is what KHook.create returned
HookApplied(K, hook) ==
    IF Raised(hook) THEN Fail(K, hook.exc)
    ELSE AppendHookOf(CommandLoop(K, hook.commands, 1), hook)

\* a pass that keeps the commands that applied
KeepWhenApplied(a, cmd) ==
    IF a.K.exc # "" \/ Not(a.ret) THEN a.K
    ELSE [a.K EXCEPT !.commands = SetItem(@, cmd.address, cmd)]

\* The loop body of apply_static_commands; a is what cmd.apply(self) gave.
KeepUnless(a, cmd) ==
    IF a.K.exc # "" \/ ~Not(a.ret) THEN a.K
    ELSE [a.K EXCEPT !.commands = SetItem(@, cmd.address, cmd)]

RECURSIVE StaticLoop(_, _, _)
StaticLoop(K, _original, k) ==
    IF K.exc # "" \/ k > Len(_original) THEN K
    ELSE StaticLoop(KeepUnless(apply(_original[k].cmd, K), _original[k].cmd),
                    _original, k + 1)

apply_static_commands(K) == StaticLoop([K EXCEPT !.commands = <<>>], K.commands, 1)

-----------------------------------------------------------------------------
(* kmhooks.py is not among the sources.  KHook.create lowers a hook         *)
(* descriptor to commands by the kind its type stands for: a branch hook    *)
(* (source, target) to a BranchCommand, with or without link, a write hook  *)
(* (address, value[, original]) to a WriteCommand; a type that stands for   *)
(* no kind is refused.  Which number stands for which kind is the registry  *)
(* of the missing file: registry is a function from hook types to kinds.    *)

HookKinds == {"Branch", "BranchLink", "Write", "Unknown"}

KHook(hookData, commands) ==
    IF Raised(commands) THEN commands
    ELSE [type |-> hookData.type, args |-> hookData.args, commands |-> commands.v]

\* cmd is the command built, or the exception its constructor raised
OneCommand(cmd) == IF Raised(cmd) THEN cmd ELSE Ok(<<cmd>>)

Lowered(kind, args) ==
    IF kind = "Unknown" THEN Raise("InvalidOperationException")
    ELSE IF Len(args) < 2 THEN Raise("IndexError")
    ELSE IF kind = "Write"
    THEN OneCommand(WriteCommand(args[1], args[2], Value32,
                                 IF Len(args) > 2 THEN args[3] ELSE None))
    ELSE Ok(<<BranchCommand(args[1], args[2], kind = "BranchLink")>>)

KHook_create(hookData, registry) ==
    KHook(hookData,
          Lowered(IF hookData.type \in DOMAIN registry THEN registry[hookData.type]
                  ELSE "Unknown",
                  hookData.args))

apply_hook(K, hookData, registry) == HookApplied(K, KHook_create(hookData, registry))

-----------------------------------------------------------------------------
(* kamek.py: load_from_linker *)

\* linker._memory.seek(pos); linker._memory.read(size)
ReadBytes(buf, pos, size) ==
    IF pos >= Len(buf) \/ size <= 0 THEN <<>>
    ELSE SubSeq(buf, pos + 1, IF pos + size > Len(buf) THEN Len(buf) ELSE pos + size)

\* the properties outputSize and bssSize of the linker
outputSize(L) == __sub__(L.outputEnd, L.outputStart)
bssSize(L)    == __sub__(L.bssEnd, L.bssStart)

\* for cmd in linker._kamekHooks: self.apply_hook(cmd)
RECURSIVE ApplyHooks(_, _, _, _)
ApplyHooks(K, hooks, registry, k) ==
    IF K.exc # "" \/ k > Len(hooks) THEN K
    ELSE ApplyHooks(apply_hook(K, hooks[k], registry), hooks, registry, k + 1)

\* self.apply_static_commands(), unless a step before it has raised
FoldCommands(K) == IF K.exc # "" THEN K ELSE apply_static_commands(K)

\* the statements after the sizes are taken: symbol sizes, relocations,
\* hooks, folding
LoadCommands(K, L, registry) ==
    FoldCommands(
        ApplyHooks(
            add_relocs_as_commands(
                [K EXCEPT !.symbolSizes =
                    [a \in DOMAIN @ \cup DOMAIN L._symbolSizes |->
                        IF a \in DOMAIN L._symbolSizes THEN L._symbolSizes[a]
                        ELSE @[a]]],
                L._fixups),
            L._kamekHooks, registry, 1))

\* self.sbssSize = linker.sbssSize; self.sbss2Size = linker.sbss2Size: the
\* attribute is read from the linker object, which has the fields LinkerOf
\* lists and, of its base class, the rules and the parent of a mapper
LoadSizes(K, L, registry) ==
    IF "sbssSize" \notin DOMAIN L THEN Fail(K, "AttributeError")
    ELSE IF "sbss2Size" \notin DOMAIN L THEN Fail(K, "AttributeError")
    ELSE LoadCommands([K EXCEPT !.sbssSize = L.sbssSize,
                                !.sbss2Size = L.sbss2Size],
                      L, registry)

\* from the seek to self.bssSize = linker.bssSize
LoadCode(K, L, registry) ==
    IF value(L.outputStart) - value(L.baseAddress) < 0 THEN Fail(K, "ValueError")
    ELSE LoadSizes([K EXCEPT
                       !.rawCode = ReadBytes(L._memory,
                                             value(L.outputStart) - value(L.baseAddress),
                                             value(outputSize(L))),
                       !.baseAddr = L.baseAddress,
                       !.bssSize = bssSize(L)],
                   L, registry)

load_from_linker(K, L, registry) ==
    IF codeSize(K) > 0 THEN Outcome(Fail(K, "InvalidOperationException"))
    ELSE Outcome(LoadCode([K EXCEPT !.mapper = [ref |-> "linker"]], L, registry))

-----------------------------------------------------------------------------
(* dolreader is a library and not among the sources.  A DolFile is the list *)
(* of its sections, each an address and its bytes; seek resolves an address *)
(* to the first section holding it and refuses an address no section holds; *)
(* reads and writes stay inside that section.                               *)

TextSection(address, data) == [address |-> address, data |-> data]

DolFile == [sections |-> <<>>, exc |-> ""]

append_section(D, section) == [D EXCEPT !.sections = Append(@, section)]

\* section holds the byte at address
Holds(section, address) ==
    address >= section.address /\ address < section.address + Len(section.data)

Resolves(D, address) == \E k \in DOMAIN D.sections : Holds(D.sections[k], address)

SectionAt(D, address) ==
    CHOOSE k \in DOMAIN D.sections :
        /\ Holds(D.sections[k], address)
        /\ \A j \in 1..(k - 1) : ~Holds(D.sections[j], address)

\* the section the seek resolved holds size bytes from address on
Fits(section, address, size) == address + size <= section.address + Len(section.data)

\* dol.seek(address); dol.read(size): a read past the end of the section
\* comes back short, which the unpacking refuses
dol_read(D, address, size) ==
    IF ~Resolves(D, address) THEN Raise("UnmappedAddressError")
    ELSE IF ~Fits(D.sections[SectionAt(D, address)], address, size)
    THEN Raise("struct.error")
    ELSE Ok(SubSeq(D.sections[SectionAt(D, address)].data,
                   address - D.sections[SectionAt(D, address)].address + 1,
                   address - D.sections[SectionAt(D, address)].address + size))

\* dol.seek(address); dol.write(bytes); bytes is what struct.pack gave
dol_write(D, address, bytes) ==
    IF ~Resolves(D, address) THEN Fail(D, "UnmappedAddressError")
    ELSE IF Raised(bytes) THEN Fail(D, bytes.exc)
    ELSE IF ~Fits(D.sections[SectionAt(D, address)], address, Len(bytes.v))
    THEN Fail(D, "UnmappedAddressError")
    ELSE [D EXCEPT !.sections[SectionAt(D, address)].data =
             Written(@, address - D.sections[SectionAt(D, address)].address, bytes.v)]

\* ioreader on a DolFile: the bytes read as a number, the number as bytes
Unpacked(bytes) ==
    IF Raised(bytes) THEN bytes
    ELSE IF Len(bytes.v) = 4 THEN read_uint32(bytes.v, 0)
    ELSE IF Len(bytes.v) = 2 THEN read_uint16(bytes.v, 0)
    ELSE Ok(bytes.v[1])

Packed(size, val) ==
    IF val < 0 \/ val >= 2 ^ (ByteBits * size) THEN Raise("struct.error")
    ELSE IF size = 4 THEN Ok(W(val))
    ELSE IF size = 2 THEN Ok(Half(val))
    ELSE Ok(<<val>>)

-----------------------------------------------------------------------------
(* kmcommands.py: write_arguments and apply_to_dol *)

\* checked is what the assertion on w returned: the word as four bytes
Argument(checked, w) == IF Raised(checked) THEN checked ELSE Ok(W(value(w)))

\* the bytes so far and the bytes of the next argument
Joined(bytes, more) ==
    IF Raised(bytes) THEN bytes
    ELSE IF Raised(more) THEN more
    ELSE Ok(bytes.v \o more.v)

\* BranchCommand.write_arguments, RelocCommand.write_arguments
Target_write_arguments(cmd) == Argument(assert_not_ambiguous(cmd.target), cmd.target)

PatchExitCommand_write_arguments(cmd) ==
    IF Raised(assert_not_ambiguous(cmd.endAddress))
    THEN assert_not_ambiguous(cmd.endAddress)
    ELSE Joined(Argument(assert_not_ambiguous(cmd.target), cmd.endAddress),
                Ok(W(value(cmd.target))))

\* self.original.assert_not_relative(); write_uint32(io, self.original.value)
OriginalArgument(original) ==
    IF original = None THEN Ok(<<>>)
    ELSE IF ~IsKWord(original) THEN Raise("AttributeError")
    ELSE Argument(assert_not_relative(original), original)

WriteCommand_write_arguments(cmd) ==
    Joined(Argument(IF cmd.valueType = Pointer THEN assert_not_ambiguous(cmd.value)
                    ELSE assert_value(cmd.value),
                    cmd.value),
           OriginalArgument(cmd.original))

write_arguments(cmd) ==
    IF cmd.cls = "WriteCommand" THEN WriteCommand_write_arguments(cmd)
    ELSE IF cmd.cls = "PatchExitCommand" THEN PatchExitCommand_write_arguments(cmd)
    ELSE Target_write_arguments(cmd)

\* checked is what the assertions returned
Asserted(D, checked, patched) ==
    IF Raised(checked) THEN Fail(D, checked.exc) ELSE patched

\* self.address.assert_absolute(); self.target.assert_absolute()
BothAbsolute(cmd) ==
    IF Raised(assert_absolute(cmd.address)) THEN assert_absolute(cmd.address)
    ELSE assert_absolute(cmd.target)

\* insn is the KWord (delta & 0x3FFFFFC) | (read_uint32(dol) & 0xFC000003)
InsnPacked(insn) == IF Raised(insn) THEN insn ELSE Packed(4, value(insn))

RelocCommand_apply_to_dol(cmd, D) ==
    Asserted(D, BothAbsolute(cmd),
        IF cmd.id = R_PPC_REL24
        THEN dol_write(D, value(cmd.address),
                       InsnPacked(Rel24Insn(__sub__(cmd.target, cmd.address),
                                            Unpacked(dol_read(D, value(cmd.address), 4)))))
        ELSE IF cmd.id = R_PPC_ADDR32
        THEN dol_write(D, value(cmd.address), Packed(4, value(cmd.target)))
        ELSE IF cmd.id = R_PPC_ADDR16_LO
        THEN dol_write(D, value(cmd.address),
                       Packed(4, BitAnd(value(cmd.target), Ok(HalfMax)).v))
        ELSE IF cmd.id = R_PPC_ADDR16_HI
        THEN dol_write(D, value(cmd.address), Packed(4, High(cmd.target)))
        ELSE IF cmd.id = R_PPC_ADDR16_HA
        THEN dol_write(D, value(cmd.address), Packed(4, Adjusted(cmd.target)))
        ELSE Fail(D, "NotImplementedError"))

BranchCommand_apply_to_dol(cmd, D) ==
    Asserted(D, BothAbsolute(cmd),
             dol_write(D, value(cmd.address), Packed(4, _generate_instruction(cmd))))

\* PatchExitCommand.apply_to_dol(self) takes no DolFile
PatchExitCommand_apply_to_dol(cmd, D) == Fail(D, "TypeError")

\* the width in bytes of a value type, 0 for a type that is none of the four
Width(valueType) ==
    IF valueType = Value8 THEN 1
    ELSE IF valueType = Value16 THEN 2
    ELSE IF valueType \in {Value32, Pointer} THEN 4
    ELSE 0

\* self.original == read_uint32(dol), and so for the other widths; current
\* is what the read returned
ShouldPatch(original, current) ==
    IF Raised(current) THEN current
    ELSE IF IsKWord(original) THEN __eq__(original, PyInt(current.v))
    ELSE [bool |-> original.int = current.v]

\* the second half of WriteCommand.apply_to_dol: the write
WriteValue(cmd, D) ==
    IF Width(cmd.valueType) = 0 THEN D
    ELSE dol_write(D, value(cmd.address), Packed(Width(cmd.valueType), value(cmd.value)))

\* the first half: shouldPatch is False, or what the comparison returned
WriteChecked(cmd, D, shouldPatch) ==
    IF Raised(shouldPatch) THEN Fail(D, shouldPatch.exc)
    ELSE IF ~shouldPatch.bool THEN D
    ELSE WriteValue(cmd, D)

WriteCommand_apply_to_dol(cmd, D) ==
    Asserted(D,
             IF Raised(assert_absolute(cmd.address)) THEN assert_absolute(cmd.address)
             ELSE IF cmd.valueType = Pointer THEN assert_absolute(cmd.value)
             ELSE assert_value(cmd.value),
             IF cmd.original = None THEN WriteValue(cmd, D)
             ELSE IF Width(cmd.valueType) = 0 THEN D
             ELSE WriteChecked(cmd, D,
                      ShouldPatch(cmd.original,
                                  Unpacked(dol_read(D, value(cmd.address),
                                                    Width(cmd.valueType))))))

\* cmd.apply_to_dol(dol) by the class of cmd
Command_apply_to_dol(cmd, D) ==
    IF cmd.cls = "RelocCommand" THEN RelocCommand_apply_to_dol(cmd, D)
    ELSE IF cmd.cls = "BranchCommand" THEN BranchCommand_apply_to_dol(cmd, D)
    ELSE IF cmd.cls = "PatchExitCommand" THEN PatchExitCommand_apply_to_dol(cmd, D)
    ELSE WriteCommand_apply_to_dol(cmd, D)

-----------------------------------------------------------------------------
(* kamek.py: pack and apply_to_dol *)

\* b"Kamek\x00\x00\x01"
Magic == <<75, 97, 109, 101, 107, 0, 0, 1>>

\* the shift of the command id, 24, leaves a byte for it; 0xFFFFFF is the
\* highest address packed next to it
IdShift    == WordBits - ByteBits
AddressMax == 2 ^ IdShift - 1

\* (self.commands[_key].id << 24) & 0xFFFFFFFF
IdWord(cmd) == (cmd.id * 2 ^ IdShift) % Modulus

\* the header of one command, with the long form for every address
PackedLong(cmd) ==
    Ok(W(BitOr(IdWord(cmd), Ok(AddressMax - 1)).v) \o W(value(cmd.address)))

\* the header of one command: one word, or two
PackedAddress(cmd) ==
    IF is_relative_addr(cmd.address)
    THEN IF __gt__(cmd.address, PyInt(AddressMax)).bool
         THEN Raise("InvalidCommandException")
         ELSE Ok(W(BitOr(IdWord(cmd), Ok(value(cmd.address))).v))
    ELSE Ok(W(BitOr(IdWord(cmd), Ok(AddressMax - 1)).v) \o W(value(cmd.address)))

\* for _key in self.commands: packed is the stream so far
RECURSIVE PackLoop(_, _, _)
PackLoop(packed, commands, k) ==
    IF Raised(packed) \/ k > Len(commands) THEN packed
    ELSE PackLoop(Joined(Joined(packed, PackedAddress(commands[k].cmd)),
                         write_arguments(commands[k].cmd)),
                  commands, k + 1)

\* pack with the two sizes of the header in the other order
PackSizesSwapped(K) ==
    PackLoop(Ok(Magic \o W(codeSize(K)) \o W(value(K.bssSize)) \o K.rawCode),
             K.commands, 1)

\* the stream pack returns, or the exception it raised
pack(K) ==
    PackLoop(Ok(Magic \o W(value(K.bssSize)) \o W(codeSize(K)) \o K.rawCode),
             K.commands, 1)

RECURSIVE ApplyLoop(_, _, _)
ApplyLoop(D, commands, k) ==
    IF D.exc # "" \/ k > Len(commands) THEN D
    ELSE ApplyLoop(Command_apply_to_dol(commands[k].cmd, D), commands, k + 1)

\* apply_to_dol without the test of the kind of the base
ApplyUnguarded(K, D) ==
    IF ~IsKWord(K.baseAddr) THEN Fail(D, "AttributeError")
    ELSE ApplyLoop(append_section(D, TextSection(value(K.baseAddr), K.rawCode)),
                   K.commands, 1)

\* the DolFile afterwards, with exc set when the call raised
apply_to_dol(K, D) ==
    IF ~IsKWord(K.baseAddr) THEN Fail(D, "AttributeError")
    ELSE IF K.baseAddr.type = RELATIVE THEN Fail(D, "InvalidOperationException")
    ELSE ApplyLoop(append_section(D, TextSection(value(K.baseAddr), K.rawCode)),
                   K.commands, 1)

-----------------------------------------------------------------------------
(* The word-level calls: one KWord object, built and operated on *)

Nothing == [none |-> TRUE]

\* integers handed to the constructor
CtorInts ==
    {0, 1, 5, TopBit - 2, TopBit - 1, TopBit, TopBit + 1, WordMax, WordMax + 1,
     -1, -2, -(TopBit - 2), -(TopBit - 1), -TopBit}

\* right operands: plain ints and KWords of every kind
OperandInts ==
    {0, 1, 2, 3, 4, HalfBits, WordBits + 4, TopBit, WordMax, ClampMax,
     ClampMax + 1, -1, -4, -32}

OperandWords ==
    {KWord(PyInt(v), t, s) : v \in {0, 1, 5, TopBit, WordMax}, t \in Types,
                            s \in {FALSE}}
    \cup {KWord(PyInt(-1), t, TRUE) : t \in Types}

Operands == {PyInt(n) : n \in OperandInts} \cup OperandWords

NoCall == [op |-> "none", self |-> Nothing, other |-> Nothing, out |-> Nothing]

InitWord ==
    /\ word = KWord(PyInt(0), VALUE, FALSE)
    /\ linker = NewLinker(<<>>)
    /\ kbin = KamekBinary
    /\ dol = DolFile
    /\ call = NoCall

\* A call is made when none is outstanding, and leaves its outcome in call.
Called(op, self, other, out) ==
    /\ call = NoCall
    /\ call' = [op |-> op, self |-> self, other |-> other, out |-> out]

\* The caller takes the outcome of the call.
Return ==
    /\ call # NoCall
    /\ call' = NoCall
    /\ UNCHANGED <<word, linker, kbin, dol>>

\* w is the word built, or the exception raised
Constructed(args, w) ==
    Called("KWord", Nothing, args, w) /\ word' = IF Raised(w) THEN word ELSE w

Construct ==
    \E v \in CtorInts, t \in Types, s \in BOOLEAN :
        /\ Constructed([val |-> v, type |-> t, signed |-> s], KWord(PyInt(v), t, s))
        /\ UNCHANGED <<linker, kbin, dol>>

Add == \E b \in Operands :
    Called("__add__", word, b, __add__(word, b)) /\ UNCHANGED <<word, linker, kbin, dol>>
Sub == \E b \in Operands :
    Called("__sub__", word, b, __sub__(word, b)) /\ UNCHANGED <<word, linker, kbin, dol>>
Mul == \E b \in Operands :
    Called("__mul__", word, b, __mul__(word, b)) /\ UNCHANGED <<word, linker, kbin, dol>>
TrueDiv == \E b \in Operands :
    Called("__truediv__", word, b, __truediv__(word, b)) /\ UNCHANGED <<word, linker, kbin, dol>>
FloorDiv == \E b \in Operands :
    Called("__floordiv__", word, b, __floordiv__(word, b)) /\ UNCHANGED <<word, linker, kbin, dol>>
Mod == \E b \in Operands :
    Called("__mod__", word, b, __mod__(word, b)) /\ UNCHANGED <<word, linker, kbin, dol>>
RShift == \E b \in Operands :
    Called("__rshift__", word, b, __rshift__(word, b)) /\ UNCHANGED <<word, linker, kbin, dol>>
LShift == \E b \in Operands :
    Called("__lshift__", word, b, __lshift__(word, b)) /\ UNCHANGED <<word, linker, kbin, dol>>
And == \E b \in Operands :
    Called("__and__", word, b, __and__(word, b)) /\ UNCHANGED <<word, linker, kbin, dol>>
Or == \E b \in Operands :
    Called("__or__", word, b, __or__(word, b)) /\ UNCHANGED <<word, linker, kbin, dol>>
Xor == \E b \in Operands :
    Called("__xor__", word, b, __xor__(word, b)) /\ UNCHANGED <<word, linker, kbin, dol>>

Neg    == Called("__neg__", word, Nothing, __neg__(word)) /\ UNCHANGED <<word, linker, kbin, dol>>
Pos    == Called("__pos__", word, Nothing, __pos__(word)) /\ UNCHANGED <<word, linker, kbin, dol>>
Invert == Called("__invert__", word, Nothing, __invert__(word)) /\ UNCHANGED <<word, linker, kbin, dol>>

Eq == \E b \in Operands :
    Called("__eq__", word, b, __eq__(word, b)) /\ UNCHANGED <<word, linker, kbin, dol>>
Ne == \E b \in Operands :
    Called("__ne__", word, b, __ne__(word, b)) /\ UNCHANGED <<word, linker, kbin, dol>>

\* hash(word) == hash(b)
HashEq == \E b \in OperandWords :
    Called("hash_eq", word, b, [bool |-> __hash__(word) = __hash__(b)])
    /\ UNCHANGED <<word, linker, kbin, dol>>

AssertNotAmbiguous ==
    Called("assert_not_ambiguous", word, Nothing, assert_not_ambiguous(word))
    /\ UNCHANGED <<word, linker, kbin, dol>>

NextWord ==
    \/ Construct
    \/ Add \/ Sub \/ Mul \/ TrueDiv \/ FloorDiv \/ Mod
    \/ RShift \/ LShift \/ And \/ Or \/ Xor
    \/ Neg \/ Pos \/ Invert
    \/ Eq \/ Ne \/ HashEq
    \/ AssertNotAmbiguous
    \/ Return

SpecWord == InitWord /\ [][NextWord]_vars

-----------------------------------------------------------------------------
(* The calls that store a value in the KWord: the constructor, the setter   *)
(* of the value property and the in-place operators, next to the operators  *)
(* that return a new KWord.                                                  *)

\* integers assigned through the setter
AssignedInts ==
    {0, WordMax + 1, ClampMax, ClampMax + 1,
     -1, -(Modulus + 1), -ClampMax, -(ClampMax + 1)}

\* the words as the constructor builds them; an in-place operator is applied
\* to these, so that the words reached stay few
BuiltWords ==
    {KWord(PyInt(v), t, s) : v \in CtorInts, t \in Types, s \in BOOLEAN}
    \ {Raise("ValueError")}

\* a call that stores in the word: w is the word afterwards, or the
\* exception raised, which leaves the word as it was
StoreIn(op, other, w) ==
    /\ Called(op, word, other, IF Raised(w) THEN w ELSE Returned)
    /\ word' = IF Raised(w) THEN word ELSE w
    /\ UNCHANGED <<linker, kbin, dol>>

Assign == \E v \in AssignedInts : StoreIn("value", PyInt(v), value_setter(word, v))

IAdd == \E b \in Operands :
    word \in BuiltWords /\ StoreIn("__iadd__", b, __iadd__(word, b))
ISub == \E b \in Operands :
    word \in BuiltWords /\ StoreIn("__isub__", b, __isub__(word, b))
IMul == \E b \in Operands :
    word \in BuiltWords /\ StoreIn("__imul__", b, __imul__(word, b))
IDiv == \E b \in Operands :
    word \in BuiltWords /\ StoreIn("__idiv__", b, __idiv__(word, b))
IFloorDiv == \E b \in Operands :
    word \in BuiltWords /\ StoreIn("__ifloordiv__", b, __ifloordiv__(word, b))
IMod == \E b \in Operands :
    word \in BuiltWords /\ StoreIn("__imod__", b, __imod__(word, b))
IRShift == \E b \in Operands :
    word \in BuiltWords /\ StoreIn("__irshift__", b, __irshift__(word, b))
ILShift == \E b \in Operands :
    word \in BuiltWords /\ StoreIn("__ilshift__", b, __ilshift__(word, b))
IAnd == \E b \in Operands :
    word \in BuiltWords /\ StoreIn("__iand__", b, __iand__(word, b))
IOr == \E b \in Operands :
    word \in BuiltWords /\ StoreIn("__ior__", b, __ior__(word, b))
IXor == \E b \in Operands :
    word \in BuiltWords /\ StoreIn("__ixor__", b, __ixor__(word, b))

NextStored ==
    \/ Construct \/ Assign
    \/ IAdd \/ ISub \/ IMul \/ IDiv \/ IFloorDiv \/ IMod
    \/ IRShift \/ ILShift \/ IAnd \/ IOr \/ IXor
    \/ Add \/ Sub \/ Mul \/ TrueDiv \/ FloorDiv \/ Mod
    \/ RShift \/ LShift \/ And \/ Or \/ Xor
    \/ Neg \/ Pos \/ Invert
    \/ Return

SpecStored == InitWord /\ [][NextStored]_vars

-----------------------------------------------------------------------------
(* The linker-level calls: one Linker, given modules and then linked *)

\* the mappers a linker is built over: none, or one that moves two regions
Mappers ==
    {<<>>,
     <<[start |-> TopBit + 256, end |-> TopBit + 511, delta |-> 32],
       [start |-> WordMax - 7, end |-> WordMax, delta |-> 16]>>}

\* base addresses handed to link_static; None leaves the default
BaseAddrs ==
    {None, PyInt(0), PyInt(TopBit), PyInt(TopBit + 4), PyInt(TopBit + 256),
     PyInt(TopBit + 2), PyInt(WordMax - 7), PyInt(Modulus)}

\* the externally defined symbols handed to a link
SymbolDatas == {EmptyDict, (SYM_target :> TopBit + 64)}

InitLinker ==
    /\ word = KWord(PyInt(0), VALUE, FALSE)
    /\ linker \in {NewLinker(base) : base \in Mappers}
    /\ kbin = KamekBinary
    /\ dol = DolFile
    /\ call = NoCall

\* a call on the linker: r is the object afterwards and the outcome
Done(op, args, r) == Called(op, Nothing, args, r.out) /\ linker' = r.L

AddModule ==
    \E path \in Paths, elf \in ElfCatalog :
        /\ Done("add_module", [path |-> path], add_module(linker, path, elf))
        /\ UNCHANGED <<word, kbin, dol>>

LinkStatic ==
    \E symbolData \in SymbolDatas, baseAddr \in BaseAddrs :
        /\ Done("link_static", [symbolData |-> symbolData, baseAddr |-> baseAddr],
                link_static(linker, symbolData, baseAddr))
        /\ UNCHANGED <<word, kbin, dol>>

LinkDynamic ==
    \E symbolData \in SymbolDatas :
        /\ Done("link_dynamic", [symbolData |-> symbolData],
                link_dynamic(linker, symbolData))
        /\ UNCHANGED <<word, kbin, dol>>

NextLinker == AddModule \/ LinkStatic \/ LinkDynamic \/ Return

SpecLinker == InitLinker /\ [][NextLinker]_vars

-----------------------------------------------------------------------------
(* The binary-level calls: a KamekBinary built once the linker has linked,  *)
(* as pack_from and the converters build it, and the calls on it            *)

\* the modules given to the linker, in the order they are added
ModuleLists ==
    {<<>>, <<ElfEmpty>>, <<ElfLib>>, <<ElfHook>>, <<ElfTwice>>,
     <<ElfCode, ElfLib>>, <<ElfCode, ElfData>>}

PathOf == <<"a.o", "b.o", "c.o">>

RECURSIVE WithModules(_, _, _)
WithModules(L, elfs, k) ==
    IF k > Len(elfs) THEN L
    ELSE WithModules(add_module(L, PathOf[k], elfs[k]).L, elfs, k + 1)

\* the linkers a KamekBinary is loaded from: linked at the default base or
\* at another, or dynamically; and one never linked
Linkers ==
    {link_static(WithModules(NewLinker(<<>>), elfs, 1), symbolData, baseAddr).L :
        elfs \in ModuleLists, symbolData \in SymbolDatas,
        baseAddr \in {None, PyInt(TopBit + 256)}}
    \cup {link_dynamic(WithModules(NewLinker(<<>>), elfs, 1), symbolData).L :
            elfs \in ModuleLists, symbolData \in SymbolDatas}
    \cup {NewLinker(<<>>)}

\* the hook descriptors handed to apply_hook: those of the linker, and one
\* of two arguments, addresses inside the code linked at the default base
HookDatas(L) ==
    L._kamekHooks
    \o <<HookData(1, <<KWord(PyInt(TopBit + 4), ABSOLUTE, FALSE),
                       KWord(PyInt(TopBit + 12), ABSOLUTE, FALSE)>>)>>

\* the hook type of the descriptors, and the kinds it may stand for
HookTypes  == {1}
Registries == [HookTypes -> HookKinds]

\* the hooks one binary is given
MaxHooks == 2

InitKamek ==
    /\ word = KWord(PyInt(0), VALUE, FALSE)
    /\ linker \in Linkers
    /\ kbin = KamekBinary
    /\ dol = DolFile
    /\ call = NoCall

\* a call on the binary: r is the object afterwards and the outcome
DoneKamek(op, args, r) == Called(op, kbin, args, r.out) /\ kbin' = r.L

LoadFromLinker ==
    \E registry \in Registries :
        /\ DoneKamek("load_from_linker", [registry |-> registry],
                     load_from_linker(kbin, linker, registry))
        /\ UNCHANGED <<word, linker, dol>>

AddRelocsAsCommands ==
    /\ DoneKamek("add_relocs_as_commands", [relocs |-> linker._fixups],
                 Outcome(add_relocs_as_commands(kbin, linker._fixups)))
    /\ UNCHANGED <<word, linker, dol>>

ApplyHook ==
    \E k \in DOMAIN HookDatas(linker), registry \in Registries :
        /\ Len(kbin.hooks) < MaxHooks
        /\ DoneKamek("apply_hook",
                     [hookData |-> HookDatas(linker)[k], registry |-> registry],
                     Outcome(apply_hook(kbin, HookDatas(linker)[k], registry)))
        /\ UNCHANGED <<word, linker, dol>>

ApplyStaticCommands ==
    /\ DoneKamek("apply_static_commands", Nothing, Outcome(apply_static_commands(kbin)))
    /\ UNCHANGED <<word, linker, dol>>

NextKamek ==
    LoadFromLinker \/ AddRelocsAsCommands \/ ApplyHook \/ ApplyStaticCommands \/ Return

SpecKamek == InitKamek /\ [][NextKamek]_vars

-----------------------------------------------------------------------------
(* kmcommands.py: WriteCommand.pack_gecko_codes, at the scale of the model  *)
(* word: 0x1FFFFFF, 0x2000000 and 0x4000000 keep their place seven bits     *)
(* below the top of the word, 0x90000000 its four top bits, and the shift   *)
(* by 32 is a shift by the width of the word.                               *)

GeckoMask   == 2 ^ (WordBits - ByteBits) - 1
Gecko16     == 2 ^ (WordBits - ByteBits)
Gecko32     == 2 ^ (WordBits - ByteBits + 1)
Mem2Start   == TopBit + 2 ^ (WordBits - 4)

\* w << 32 and w | other for w the outcome of an operator
ShiftedUp(w) == IF Raised(w) THEN w ELSE __lshift__(w, PyInt(WordBits))
OrWith(w, other) == IF Raised(w) THEN w ELSE __or__(w, other)

\* code = ((self.address & 0x1FFFFFF) << 32) | self.value
GeckoCode(cmd) ==
    OrWith(ShiftedUp(__and__(cmd.address, PyInt(GeckoMask))), cmd.value)

\* list(w): a KWord is not iterable
Listed(w) == IF Raised(w) THEN w ELSE Raise("TypeError")

\* return list(code | (kindMask << 32)); kindMask << 32 is an int beyond
\* what __clamp takes
GeckoListed(code, kindMask) ==
    Listed(OrWith(code, PyInt(PyLShift(kindMask, Ok(WordBits + 2)).v)))

\* the statements after the checks of the address and of the original
GeckoPacked(cmd) ==
    IF Raised(GeckoCode(cmd)) THEN GeckoCode(cmd)
    ELSE IF cmd.valueType = Value16 THEN GeckoListed(GeckoCode(cmd), Gecko16)
    ELSE IF cmd.valueType \in {Value32, Pointer}
    THEN GeckoListed(GeckoCode(cmd), Gecko32)
    ELSE Raise("InvalidOperationException")

\* the list of codes, or the exception raised
WriteCommand_pack_gecko_codes(cmd) ==
    IF Raised(assert_absolute(cmd.address)) THEN assert_absolute(cmd.address)
    ELSE IF cmd.valueType = Pointer /\ Raised(assert_absolute(cmd.value))
    THEN assert_absolute(cmd.value)
    ELSE IF cmd.valueType # Pointer /\ Raised(assert_value(cmd.value))
    THEN assert_value(cmd.value)
    ELSE IF cmd.original # None THEN Raise("NotImplementedError")
    ELSE IF Raised(__ge__(cmd.address, PyInt(Mem2Start)))
    THEN __ge__(cmd.address, PyInt(Mem2Start))
    ELSE IF __ge__(cmd.address, PyInt(Mem2Start)).bool
    THEN Raise("NotImplementedError")
    ELSE GeckoPacked(cmd)

-----------------------------------------------------------------------------
(* The output-level calls: a KamekBinary holding code and commands is       *)
(* packed or applied to a DolFile; commands are built, applied to the       *)
(* binary and applied to the DolFile one by one.                            *)

\* the linkers the binaries are loaded from
OutputLinkers ==
    {link_static(WithModules(NewLinker(<<>>), <<ElfCode, ElfLib>>, 1), EmptyDict, None).L,
     link_static(WithModules(NewLinker(<<>>), <<ElfLib>>, 1), EmptyDict, None).L,
     link_dynamic(WithModules(NewLinker(<<>>), <<ElfCode, ElfLib>>, 1), EmptyDict).L,
     link_dynamic(WithModules(NewLinker(<<>>), <<ElfLib>>, 1), EmptyDict).L}

\* for _key in linker._symbolSizes: self.symbolSizes[_key] = linker._symbolSizes[_key]
Sized(K, L) == [K EXCEPT !.symbolSizes = L._symbolSizes]

\* the binary a load leaves, given the sizes of the linker's symbols and,
\* when relocs, the commands of its relocations
Loaded(L, relocs) ==
    IF relocs
    THEN Outcome(add_relocs_as_commands(
                     Sized(load_from_linker(KamekBinary, L, <<>>).L, L), L._fixups)).L
    ELSE Sized(load_from_linker(KamekBinary, L, <<>>).L, L)

\* the commands hooks are lowered to: branches from RELATIVE addresses low
\* and high, from an address inside the code, to an ambiguous target, from an
\* ABSOLUTE address below the top bit, from the RELATIVE address that equals
\* the marker of the long form; writes
CommandLists ==
    {<<>>,
     <<BranchCommand(KWord(PyInt(8), RELATIVE, FALSE),
                     KWord(PyInt(16), RELATIVE, FALSE), FALSE)>>,
     <<BranchCommand(KWord(PyInt(AddressMax), RELATIVE, FALSE),
                     KWord(PyInt(16), RELATIVE, FALSE), TRUE),
       WriteCommandOf(Ok(Write32), KWord(PyInt(4), VALUE, FALSE),
                      KWord(PyInt(5), VALUE, FALSE), Value32, None)>>,
     <<BranchCommand(KWord(PyInt(TopBit + 4), ABSOLUTE, FALSE),
                     KWord(PyInt(TopBit + 12), ABSOLUTE, FALSE), FALSE),
       BranchCommand(KWord(PyInt(AddressMax + 1), RELATIVE, FALSE),
                     KWord(PyInt(16), RELATIVE, FALSE), FALSE)>>,
     <<BranchCommand(KWord(PyInt(TopBit + 4), ABSOLUTE, FALSE),
                     KWord(PyInt(12), ABSOLUTE, FALSE), FALSE),
       BranchCommand(KWord(PyInt(AddressMax + 1), RELATIVE, FALSE),
                     KWord(PyInt(16), RELATIVE, FALSE), FALSE)>>,
     <<WriteCommandOf(Ok(WritePointer), KWord(PyInt(TopBit + 4), ABSOLUTE, FALSE),
                      KWord(PyInt(TopBit + 8), ABSOLUTE, FALSE), Pointer, None)>>,
     <<BranchCommand(KWord(PyInt(4), ABSOLUTE, FALSE),
                     KWord(PyInt(TopBit + 12), ABSOLUTE, FALSE), FALSE)>>,
     <<BranchCommand(KWord(PyInt(AddressMax - 1), RELATIVE, FALSE),
                     KWord(PyInt(16), RELATIVE, FALSE), FALSE),
       BranchCommand(KWord(PyInt(TopBit + 4), ABSOLUTE, FALSE),
                     KWord(PyInt(TopBit + 12), ABSOLUTE, FALSE), FALSE)>>}

Binaries ==
    {CommandLoop(Loaded(L, relocs), cmds, 1) :
        L \in OutputLinkers, relocs \in BOOLEAN, cmds \in CommandLists}

\* the binaries a DolFile with data is patched with: one never loaded and
\* one linked dynamically
PatchingBinaries ==
    {KamekBinary,
     Loaded(link_dynamic(WithModules(NewLinker(<<>>), <<ElfCode, ElfLib>>, 1),
                         EmptyDict).L, TRUE)}

\* a DolFile holding one section of data outside the code
DataStart == TopBit + 512
Dols ==
    {append_section(DolFile, TextSection(DataStart, <<9, 0, 0, 0, 0, 0, 0, 9>>))}

\* the arguments of the WriteCommand constructor
WriteAddresses ==
    {KWord(PyInt(DataStart), ABSOLUTE, FALSE), KWord(PyInt(DataStart), VALUE, FALSE)}
WriteValues    == {KWord(PyInt(5), VALUE, FALSE), KWord(PyInt(TopBit + 8), ABSOLUTE, FALSE)}
ValueTypes     == {Pointer, Value32, Value16, Value8}
\* None, zero, the byte, the half word and the word the section starts with
Originals      ==
    {None, PyInt(0), PyInt(9), PyInt(9 * Byte), PyInt(9 * Byte ^ 3),
     KWord(PyInt(9), VALUE, FALSE)}

\* the write commands the constructor builds
WriteCommands ==
    {WriteCommand(a, v, ty, o) :
        a \in WriteAddresses, v \in WriteValues, ty \in ValueTypes, o \in Originals}
    \ {Raise("TypeError")}

\* the commands applied one by one: relocations of a half word inside the
\* code by the high half of an address, and patches of the exit of a function
Dests == {TopBit + 52, TopBit + 2 ^ (HalfBits - 1) + 52, 2 ^ (HalfBits - 1) + 52, 52}
BaseOf(K) == IF IsKWord(K.baseAddr) THEN value(K.baseAddr) ELSE K.baseAddr.int
AppliedCommands(K) ==
    {RelocCommand(KWord(PyInt(BaseOf(K) + 6), ABSOLUTE, FALSE),
                  KWord(PyInt(d), ABSOLUTE, FALSE), R_PPC_ADDR16_HA) : d \in Dests}
    \cup {PatchExitCommand(KWord(PyInt(BaseOf(K) + s), ABSOLUTE, FALSE),
                           KWord(PyInt(BaseOf(K) + 64), ABSOLUTE, FALSE)) :
             s \in {0, 2, 12, 32}}

\* the sections one DolFile is given
MaxSections == 2

InitOutput ==
    /\ word = KWord(PyInt(0), VALUE, FALSE)
    /\ linker = NewLinker(<<>>)
    /\ \/ kbin \in Binaries /\ dol = DolFile
       \/ kbin \in PatchingBinaries /\ dol \in Dols
    /\ call = NoCall

Pack ==
    /\ Called("pack", kbin, Nothing, pack(kbin))
    /\ UNCHANGED <<word, linker, kbin, dol>>

\* a call on the DolFile: D is the object afterwards, with its exception
DoneDol(op, self, args, D) ==
    /\ Called(op, self, args, Outcome(D).out)
    /\ dol' = Outcome(D).L

ApplyToDol ==
    /\ Len(dol.sections) < MaxSections
    /\ DoneDol("apply_to_dol", kbin, [dol |-> dol], apply_to_dol(kbin, dol))
    /\ UNCHANGED <<word, linker, kbin>>

NewWriteCommand ==
    \E a \in WriteAddresses, v \in WriteValues, ty \in ValueTypes, o \in Originals :
        /\ Called("WriteCommand", Nothing,
                  [address |-> a, value |-> v, valueType |-> ty, original |-> o],
                  WriteCommand(a, v, ty, o))
        /\ UNCHANGED <<word, linker, kbin, dol>>

CommandApplyToDol ==
    \E cmd \in WriteCommands \cup AppliedCommands(kbin) :
        /\ DoneDol("Command.apply_to_dol", cmd, [dol |-> dol],
                   Command_apply_to_dol(cmd, dol))
        /\ UNCHANGED <<word, linker, kbin>>

CommandApply ==
    \E cmd \in AppliedCommands(kbin) :
        /\ Called("Command.apply", cmd, [f |-> kbin], Outcome(apply(cmd, kbin).K).out)
        /\ kbin' = Outcome(apply(cmd, kbin).K).L
        /\ UNCHANGED <<word, linker, dol>>

NextOutput ==
    Pack \/ ApplyToDol \/ NewWriteCommand \/ CommandApplyToDol \/ CommandApply \/ Return

SpecOutput == InitOutput /\ [][NextOutput]_vars

-----------------------------------------------------------------------------
(* The gecko codes of write commands: pack_gecko_codes is called on write   *)
(* commands one by one.                                                     *)

\* the write commands packed as gecko codes: those the constructor builds
\* and writes to addresses whose low bits are 0 or 1, and at and above
\* 0x90000000
GeckoAddresses ==
    {KWord(PyInt(TopBit), ABSOLUTE, FALSE), KWord(PyInt(TopBit + 1), ABSOLUTE, FALSE),
     KWord(PyInt(Mem2Start - 1), ABSOLUTE, FALSE),
     KWord(PyInt(Mem2Start), ABSOLUTE, FALSE),
     KWord(PyInt(Mem2Start + 2 ^ HalfBits), ABSOLUTE, FALSE)}
GeckoCommands ==
    WriteCommands
    \cup {WriteCommand(a, v, ty, None) :
             a \in GeckoAddresses, v \in WriteValues, ty \in ValueTypes}

PackGeckoCodes ==
    \E cmd \in GeckoCommands :
        /\ Called("WriteCommand.pack_gecko_codes", cmd, Nothing,
                  WriteCommand_pack_gecko_codes(cmd))
        /\ UNCHANGED <<word, linker, kbin, dol>>

InitGecko ==
    /\ word = KWord(PyInt(0), VALUE, FALSE)
    /\ linker = NewLinker(<<>>)
    /\ kbin = KamekBinary
    /\ dol = DolFile
    /\ call = NoCall

NextGecko == PackGeckoCodes \/ Return

SpecGecko == InitGecko /\ [][NextGecko]_vars

-----------------------------------------------------------------------------
(* The relocation-level calls: the relocations of each type are applied to  *)
(* the code of a binary linked statically and to a DolFile that holds the   *)
(* same bytes at the same addresses.                                        *)

RelocBinary ==
    Loaded(link_static(WithModules(NewLinker(<<>>), <<ElfCode, ElfLib>>, 1),
                       EmptyDict, None).L, FALSE)
RelocDol ==
    append_section(DolFile, TextSection(BaseOf(RelocBinary), RelocBinary.rawCode))

\* the relocations applied: at a word and at the half word after it, to
\* targets with the top bit of the low half clear and set
RelocTypes ==
    {R_PPC_ADDR32, R_PPC_ADDR16_LO, R_PPC_ADDR16_HI, R_PPC_ADDR16_HA, R_PPC_REL24}
RelocSources == {BaseOf(RelocBinary) + 4, BaseOf(RelocBinary) + 6}
RelocTargets ==
    {TopBit + 52, TopBit + 2 ^ (HalfBits - 1) + 52, TopBit + 2 ^ HalfBits + 2 ^ (HalfBits - 1) + 8}
RelocCommands ==
    {RelocCommand(KWord(PyInt(s), ABSOLUTE, FALSE), KWord(PyInt(d), ABSOLUTE, FALSE), ty) :
        s \in RelocSources, d \in RelocTargets, ty \in RelocTypes}

InitReloc ==
    /\ word = KWord(PyInt(0), VALUE, FALSE)
    /\ linker = NewLinker(<<>>)
    /\ kbin = RelocBinary
    /\ dol = RelocDol
    /\ call = NoCall

\* the commands are applied to the code and to the DolFile as loaded
RelocApply ==
    \E cmd \in RelocCommands :
        /\ kbin = RelocBinary
        /\ Called("RelocCommand.apply", cmd, [f |-> kbin],
                  Outcome(RelocCommand_apply(cmd, kbin).K).out)
        /\ kbin' = Outcome(RelocCommand_apply(cmd, kbin).K).L
        /\ UNCHANGED <<word, linker, dol>>

RelocApplyToDol ==
    \E cmd \in RelocCommands :
        /\ dol = RelocDol
        /\ DoneDol("RelocCommand.apply_to_dol", cmd, [dol |-> dol],
                   RelocCommand_apply_to_dol(cmd, dol))
        /\ UNCHANGED <<word, linker, kbin>>

NextReloc == RelocApply \/ RelocApplyToDol \/ Return

SpecReloc == InitReloc /\ [][NextReloc]_vars

-----------------------------------------------------------------------------
(* The symbol-level calls: a Linker holding its modules is linked, and the  *)
(* names of its symbols are resolved for each module.                       *)

\* the modules given to the linker: definitions of one name, STB_GLOBAL and
\* STB_WEAK, in every order; relocations inside and outside .kamek
SymbolModuleLists ==
    {<<ElfCode, ElfLib>>, <<ElfCode, ElfData>>, <<ElfCode, ElfCode>>,
     <<ElfCode, ElfAlt>>, <<ElfAlt, ElfCode>>,
     <<ElfLib, ElfAlt>>, <<ElfAlt, ElfLib>>, <<ElfLib, ElfAlt, ElfAlt>>,
     <<ElfLib, ElfWeak>>, <<ElfWeak, ElfLib>>,
     <<ElfAlt, ElfCode, ElfWeak>>, <<ElfWeak, ElfAlt, ElfCode>>,
     <<ElfCode, ElfWeak>>, <<ElfWeak>>,
     <<ElfHook>>, <<ElfHook, ElfLib>>, <<ElfWeak, ElfHook>>,
     <<ElfBadHook>>, <<ElfWeak, ElfBadHook>>}

\* the externally defined symbols: none, or target and loc
SymbolExterns == {EmptyDict, (SYM_target :> TopBit + 96) @@ (SYM_loc :> TopBit + 128)}

\* the names resolved
SymbolNames == {SYM_f, SYM_g, SYM_w, SYM_loc, SYM_kHook0, SYM_target}

InitSymbols ==
    /\ word = KWord(PyInt(0), VALUE, FALSE)
    /\ linker \in {WithModules(NewLinker(<<>>), elfs, 1) : elfs \in SymbolModuleLists}
    /\ kbin = KamekBinary
    /\ dol = DolFile
    /\ call = NoCall

LinkModulesStatic ==
    \E symbolData \in SymbolExterns, baseAddr \in {None, PyInt(TopBit + 256)} :
        /\ Done("link_static", [symbolData |-> symbolData, baseAddr |-> baseAddr],
                link_static(linker, symbolData, baseAddr))
        /\ UNCHANGED <<word, kbin, dol>>

LinkModulesDynamic ==
    \E symbolData \in SymbolExterns :
        /\ Done("link_dynamic", [symbolData |-> symbolData],
                link_dynamic(linker, symbolData))
        /\ UNCHANGED <<word, kbin, dol>>

ResolveSymbol ==
    \E elfpath \in {PathOf[k] : k \in DOMAIN PathOf}, name \in SymbolNames :
        /\ Called("_resolve_symbol", Nothing, [elfpath |-> elfpath, name |-> name],
                  _resolve_symbol(linker, elfpath, name))
        /\ UNCHANGED <<word, linker, kbin, dol>>

NextSymbols == LinkModulesStatic \/ LinkModulesDynamic \/ ResolveSymbol \/ Return

SpecSymbols == InitSymbols /\ [][NextSymbols]_vars

-----------------------------------------------------------------------------
(* Claims about KWord, checked under SpecWord *)

KindPreservingOps ==
    {"__add__", "__sub__", "__mul__", "__truediv__", "__mod__", "__lshift__",
     "__rshift__", "__and__", "__or__", "__xor__",
     "__neg__", "__pos__", "__invert__"}

\* C2: whenever a + b, a - b, a * b, a / b, a % b, a << b, a >> b, a & b,
\* a | b, a ^ b, -a, +a or ~a returns, for b a KWord of any kind or an int,
\* the word returned has the kind of a.
C2_KindPreserved ==
    (call.op \in KindPreservingOps /\ ~Raised(call.out))
        => call.out.type = call.self.type

\* a RELATIVE word minus an ABSOLUTE word returned a word
C2_Witness ==
    /\ call.op = "__sub__"
    /\ call.self.type = RELATIVE
    /\ IsKWord(call.other) /\ call.other.type = ABSOLUTE
    /\ ~Raised(call.out)

ConstructedValue(lowest) ==
    (call.op = "KWord" /\ call.other.type = VALUE /\ ~call.other.signed)
        => LET v == call.other.val
           IN  /\ (0 <= v /\ v <= WordMax)
                     => (~Raised(call.out) /\ value(call.out) = v)
               /\ (lowest <= v /\ v < 0)
                     => (~Raised(call.out) /\ value(call.out) = v + Modulus)

\* C3 as amended: KWord(v, VALUE) has value v for 0 <= v < 2^32, and
\* KWord(i, VALUE) succeeds with value i + 2^32 for -2^31 < i < 0.
C3_WordClamp == ConstructedValue(-(TopBit - 1))

\* C3 as stated: the same for every i with -2^31 <= i < 0.
C3_Original == ConstructedValue(-TopBit)

\* KWord(-0x7FFFFFFF, VALUE) was built
C3_Witness ==
    /\ call.op = "KWord" /\ call.other.type = VALUE /\ ~call.other.signed
    /\ call.other.val = -(TopBit - 1)
    /\ ~Raised(call.out)

TopBitSet(x) == (x \div TopBit) % 2 = 1

\* C4: assert_not_ambiguous on an ABSOLUTE word of value x returns exactly
\* when bit 31 of x is set, on a RELATIVE word exactly when bit 31 of x is
\* clear, and whenever it does not return it raises InvalidOperation.
C4_Ambiguity ==
    call.op = "assert_not_ambiguous"
        => /\ call.self.type = ABSOLUTE
                 => ((call.out = Returned) <=> TopBitSet(call.self._value))
           /\ call.self.type = RELATIVE
                 => ((call.out = Returned) <=> ~TopBitSet(call.self._value))
           /\ call.out # Returned
                 => call.out = Raise("InvalidOperationException")

\* the check ran on a RELATIVE word with bit 31 set, and raised
C4_Witness ==
    /\ call.op = "assert_not_ambiguous"
    /\ call.self.type = RELATIVE
    /\ TopBitSet(call.self._value)
    /\ call.out = Raise("InvalidOperationException")

SameKindAndValue(a, b) == a.type = b.type /\ value(a) = value(b)

\* C5: a == b, and hash(a) == hash(b), exactly when a and b have the same
\* kind and the same value.
C5_EqualityByKindAndValue ==
    /\ (call.op = "__eq__" /\ IsKWord(call.other))
          => (call.out.bool <=> SameKindAndValue(call.self, call.other))
    /\ call.op = "hash_eq"
          => (call.out.bool <=> SameKindAndValue(call.self, call.other))

-----------------------------------------------------------------------------
(* Claims about the Linker, checked under SpecLinker *)

LinkOps == {"link_static", "link_dynamic"}
AlreadyLinked == Raise("AlreadyLinkedException")

\* what the four phases of a link write
PhaseState(L) ==
    <<L.outputStart, L.outputEnd, L.bssStart, L.bssEnd, L.kamekStart, L.kamekEnd,
      L._binaries, L._sectionBases, L._location, L._memory, L._externSymbols,
      L._globalSymbols, L._localSymbols, L._symbolTableContents, L._symbolSizes,
      L._fixups, L._kamekRelocs, L._kamekHooks, L.imported>>

\* section collection has run: the cursor is a word and the memory is written
Collected(L) ==
    IsKWord(L._location) /\ L._memory = Concat(L._binaries)

\* the base address of a link call is a word once remapped
ValidBase(L, c) ==
    \/ c.op = "link_dynamic"
    \/ c.other.baseAddr = None
    \/ ~Raised(KWord(PyInt(remap(L.mapper, c.other.baseAddr.int)), ABSOLUTE, FALSE))

\* a link call on a linker not yet linked links it; on a linked one it is
\* refused and leaves what the phases wrote as it was
LinkStep(L, c, L2) ==
    IF L._linked
    THEN c.out = AlreadyLinked /\ PhaseState(L2) = PhaseState(L)
    ELSE c.out # AlreadyLinked /\ L2._linked /\ Collected(L2)

\* C1 as amended: among link_static / link_dynamic calls whose base address
\* is a valid word after remapping, the first performs the link and every
\* later one fails with AlreadyLinked without running section collection,
\* symbol-table building, relocation processing or hook extraction again.
C1_SingleUse ==
    [][(call = NoCall /\ call'.op \in LinkOps /\ ValidBase(linker, call'))
          => LinkStep(linker, call', linker')]_vars

\* C1 as stated: for every sequence of link calls, the first performs the
\* link and every later one fails with AlreadyLinked.
C1_Original ==
    [][(call = NoCall /\ call'.op \in LinkOps)
          => LinkStep(linker, call', linker')]_vars

C1_Witness ==
    /\ call.op \in LinkOps /\ call.out = AlreadyLinked
    /\ linker._linked /\ Len(linker.imported) > 0

\* the six layout values are in order and each a multiple of 4
LayoutOrdered(L) ==
    LET r == <<value(L.outputStart), value(L.outputEnd), value(L.bssStart),
               value(L.bssEnd), value(L.kamekStart), value(L.kamekEnd)>>
    IN  /\ \A k \in 1..5 : r[k] <= r[k + 1]
        /\ \A k \in 1..6 : r[k] % 4 = 0

\* the length of the layout of the modules, laid out low in the address
\* space from an address equal to base modulo the largest alignment
LayoutSize(modules, base) ==
    LET low == base % 32
        L   == _collect_sections(
                   [NewLinker(<<>>) EXCEPT
                       !._modules = modules,
                       !.baseAddress = KWord(PyInt(low), ABSOLUTE, FALSE)])
    IN  value(L.kamekEnd) - low

\* C9 as amended: after section collection, for every base address that is a
\* multiple of 4 and every set of input sections whose layout from that base
\* ends within the address space, outputStart <= outputEnd <= bssStart <=
\* bssEnd <= kamekStart <= kamekEnd and each of the six is a multiple of 4.
\* (Collection starts by setting outputStart to the base address.)
C9_Layout ==
    LET base == value(linker.outputStart)
    IN  (/\ linker._linked
         /\ base % 4 = 0
         /\ base + LayoutSize(linker._modules, base) <= WordMax)
            => LayoutOrdered(linker)

\* C9 as stated: after section collection, for every base address and every
\* set of input sections, the six values are in order and multiples of 4.
C9_Original == linker._linked => LayoutOrdered(linker)

C9_Witness ==
    /\ linker._linked
    /\ value(linker.outputStart) % 32 = 4
    /\ value(linker.outputStart) < value(linker.outputEnd)
    /\ value(linker.bssStart) < value(linker.bssEnd)
    /\ value(linker.kamekStart) < value(linker.kamekEnd)
    /\ LayoutOrdered(linker)

\* C10: after section collection every imported section, identified by its
\* ELF and section index, has an entry of its own in the section base table,
\* and that entry holds the cursor value at the moment of its import.
C10_SectionBases ==
    \A i, j \in DOMAIN linker.imported :
        LET a == linker.imported[i]
            b == linker.imported[j]
        IN  /\ i # j => a.key # b.key
            /\ a.key \in DOMAIN linker._sectionBases
            /\ value(linker._sectionBases[a.key]) = a.cursor


-----------------------------------------------------------------------------
(* Claims about the Kamek binary and its commands, checked under SpecKamek *)

\* two of the linker's fixups have one source address
DuplicateFixups(L) ==
    \E i, j \in DOMAIN L._fixups :
        i < j /\ DictKey(L._fixups[i].source) = DictKey(L._fixups[j].source)

\* the code a load takes from the linker, as no command has modified it
LinkedCode(L) ==
    ReadBytes(L._memory, value(L.outputStart) - value(L.baseAddress),
              value(outputSize(L)))

\* C6: when a new KamekBinary is loaded from a linker two of whose fixups
\* have the same source address, load_from_linker fails with
\* InvalidOperation, and the code buffer holds the linked code without the
\* write of any command.
C6_DuplicateCommands ==
    (call.op = "load_from_linker" /\ call.self = KamekBinary
     /\ DuplicateFixups(linker))
        => /\ call.out = Raise("InvalidOperationException")
           /\ kbin.rawCode \in {<<>>, LinkedCode(linker)}

StaticallyLinked(L) == L._linked /\ is_absolute_addr(L.baseAddress)

FoldableTypes ==
    {R_PPC_ADDR32, R_PPC_ADDR16_LO, R_PPC_ADDR16_HI, R_PPC_ADDR16_HA, R_PPC_REL24}

AbsoluteReloc(cmd) ==
    cmd.cls = "RelocCommand" /\ cmd.id \in FoldableTypes
    /\ is_absolute_addr(cmd.target)

\* the static-folding pass has run to its end on the commands of call.self
FoldingPass == call.op = "apply_static_commands" /\ ~Raised(call.out)

\* C7: once the static-folding pass has run over the commands built from
\* the fixups of a statically linked linker, the command set holds no
\* RelocCommand of type Addr32, Addr16Lo, Addr16Hi, Addr16Ha or Rel24 whose
\* dest is ABSOLUTE.
C7_StaticFold ==
    (FoldingPass /\ StaticallyLinked(linker))
        => \A k \in DOMAIN kbin.commands : ~AbsoluteReloc(kbin.commands[k].cmd)

\* a pass over relocation commands of all five types with ABSOLUTE dests,
\* after a static link, that has modified the code
C7_Witness ==
    /\ FoldingPass /\ StaticallyLinked(linker)
    /\ \A ty \in FoldableTypes :
          \E k \in DOMAIN call.self.commands :
              /\ AbsoluteReloc(call.self.commands[k].cmd)
              /\ call.self.commands[k].cmd.id = ty
    /\ kbin.rawCode # call.self.rawCode
    /\ kbin.commands = <<>>

\* 0x48000000 | (1 if link else 0) | ((target - source) & 0x03FFFFFC)
BranchWord(cmd) ==
    Opcode(18) + (IF cmd.id = BranchLink THEN 1 ELSE 0)
    + (((value(cmd.target) - value(cmd.address)) % Modulus) % 2 ^ (WordBits - 6))
    - (((value(cmd.target) - value(cmd.address)) % Modulus) % 4)

\* the pass ran over one command, a BranchCommand
BranchPass ==
    /\ FoldingPass
    /\ Len(call.self.commands) = 1
    /\ call.self.commands[1].cmd.cls = "BranchCommand"

\* C8: a static-folding pass over one BranchCommand whose source and target
\* are ABSOLUTE and whose source lies in [baseAddr, baseAddr + codeSize)
\* leaves the branch word at the source and the command set empty; over any
\* other BranchCommand it leaves the code and the command set as they were.
C8_BranchFold ==
    BranchPass =>
        IF /\ is_absolute_addr(call.self.commands[1].cmd.address)
           /\ is_absolute_addr(call.self.commands[1].cmd.target)
           /\ contains(call.self, call.self.commands[1].cmd.address)
        THEN /\ read_u32(kbin, value(call.self.commands[1].cmd.address))
                    = Ok(BranchWord(call.self.commands[1].cmd))
             /\ kbin.commands = <<>>
        ELSE /\ kbin.rawCode = call.self.rawCode
             /\ kbin.commands = call.self.commands

-----------------------------------------------------------------------------
(* Claims about the commands and the output of a KamekBinary, checked      *)
(* under SpecOutput.                                                        *)

\* PatchExitCommand.apply(f) was called on a loaded binary that recorded a
\* size for the function at the source
PatchExitCall ==
    /\ call.op = "Command.apply"
    /\ call.self.cls = "PatchExitCommand"
    /\ IsKWord(call.other.f.baseAddr)
    /\ ~Raised(get_symbol_size(call.other.f, call.self.address))

\* the recorded size of the function the call is about
FuncSize == get_symbol_size(call.other.f, call.self.address).v

\* some word of K in [source, source + size - 4) is a bclr
ReturnsWithin(K, source, size) ==
    \E i \in 0..(size \div 4) :
        /\ 4 * i < size - 4
        /\ ~Raised(read_u32(K, source + 4 * i))
        /\ BitAnd(read_u32(K, source + 4 * i).v, Ok(ReturnMask)).v = InsnBclr

\* the function of size bytes at source in K is one PatchExit refuses
Refused(K, source, size) ==
    \/ size < 4
    \/ read_u32(K, source + size - 4) # Ok(InsnBlr)
    \/ ReturnsWithin(K, source, size)

\* C11: PatchExitCommand.apply fails with InvalidOperation and leaves the
\* code as it was when the recorded size of the function is less than 4, its
\* last word is not blr, or a word before the last is a bclr; otherwise it
\* does not fail.
C11_PatchExit ==
    PatchExitCall =>
        IF Refused(call.other.f, value(call.self.address), FuncSize)
        THEN /\ call.out = Raise("InvalidOperationException")
             /\ kbin.rawCode = call.other.f.rawCode
        ELSE ~Raised(call.out)

\* four bytes read as a big-endian number
BigEndian(bytes) == ((bytes[1] * Byte + bytes[2]) * Byte + bytes[3]) * Byte + bytes[4]

\* pack() returned a stream
PackReturned == call.op = "pack" /\ ~Raised(call.out)

\* the length of the record of cmd: one word or two, and its arguments
RecordLen(cmd) ==
    (IF cmd.address.type = RELATIVE THEN 4 ELSE 8) + Len(write_arguments(cmd).v)

\* the length of the records of the first k commands
RECURSIVE RecordsLen(_, _)
RecordsLen(commands, k) ==
    IF k = 0 THEN 0 ELSE RecordsLen(commands, k - 1) + RecordLen(commands[k].cmd)

\* C12: what pack() returns begins with the bytes 'K','a','m','e','k',0,0,1,
\* then bssSize and codeSize as big-endian words, then the codeSize bytes of
\* the code; the records of the commands come after these and nothing else.
C12_PackHeader ==
    PackReturned =>
        /\ Len(call.out.v) =
               16 + Len(call.self.rawCode)
               + RecordsLen(call.self.commands, Len(call.self.commands))
        /\ SubSeq(call.out.v, 1, 8) = <<75, 97, 109, 101, 107, 0, 0, 1>>
        /\ BigEndian(SubSeq(call.out.v, 9, 12)) = value(call.self.bssSize)
        /\ BigEndian(SubSeq(call.out.v, 13, 16)) = Len(call.self.rawCode)
        /\ SubSeq(call.out.v, 17, 16 + Len(call.self.rawCode)) = call.self.rawCode

\* a stream was returned for a binary with code, a bss and commands
C12_Witness ==
    /\ PackReturned
    /\ call.self.rawCode # <<>>
    /\ value(call.self.bssSize) # 0
    /\ value(call.self.bssSize) # Len(call.self.rawCode)
    /\ call.self.commands # <<>>

\* the offset of the record of the k-th command in the stream
RecordStart(K, k) == 16 + Len(K.rawCode) + RecordsLen(K.commands, k - 1)

\* the record at offset start of the stream begins as the record of cmd does
RecordBegins(stream, start, cmd) ==
    IF cmd.address.type = RELATIVE
    THEN /\ value(cmd.address) <= AddressMax
         /\ BigEndian(SubSeq(stream, start + 1, start + 4))
                = cmd.id * 2 ^ IdShift + value(cmd.address)
    ELSE /\ BigEndian(SubSeq(stream, start + 1, start + 4))
                = cmd.id * 2 ^ IdShift + AddressMax - 1
         /\ BigEndian(SubSeq(stream, start + 5, start + 8)) = value(cmd.address)

\* the address of cmd is RELATIVE and too high for the short form
TooHigh(cmd) == cmd.address.type = RELATIVE /\ value(cmd.address) > AddressMax

\* pack gets to the k-th command of K: every command before it is serialized
Serialized(K, k) ==
    \A j \in 1..(k - 1) :
        ~TooHigh(K.commands[j].cmd) /\ ~Raised(write_arguments(K.commands[j].cmd))

\* C13: the record of every command pack() serializes starts with the word
\* (id << 24) | address.value when the address is RELATIVE and at most
\* 0xFFFFFF, and with (id << 24) | 0xFFFFFE then address.value when the
\* address is not RELATIVE; when pack() gets to a command whose address is
\* RELATIVE and above 0xFFFFFF it fails with InvalidCommand, returning nothing.
C13_PackRecords ==
    call.op = "pack" =>
        \A k \in DOMAIN call.self.commands :
            /\ ~Raised(call.out) =>
                   RecordBegins(call.out.v, RecordStart(call.self, k),
                                call.self.commands[k].cmd)
            /\ (TooHigh(call.self.commands[k].cmd) /\ Serialized(call.self, k)) =>
                   call.out = Raise("InvalidCommandException")

\* a stream was returned that holds a record of each form
C13_Witness ==
    /\ PackReturned
    /\ \E k \in DOMAIN call.self.commands :
           call.self.commands[k].cmd.address.type = RELATIVE
    /\ \E k \in DOMAIN call.self.commands :
           call.self.commands[k].cmd.address.type = ABSOLUTE
    /\ \E k \in DOMAIN call.self.commands :
           /\ call.self.commands[k].cmd.address.type = VALUE
           /\ k > 1

\* apply_to_dol(dol) was called on a binary whose base address is RELATIVE
DynamicApplied ==
    /\ call.op = "apply_to_dol"
    /\ IsKWord(call.self.baseAddr)
    /\ call.self.baseAddr.type = RELATIVE

\* C14: apply_to_dol on a binary whose base address is RELATIVE fails with
\* InvalidOperation, and the DolFile is as it was before the call: no section
\* was appended and no command applied.
C14_DynamicRefused ==
    DynamicApplied =>
        /\ call.out = Raise("InvalidOperationException")
        /\ dol = call.other.dol

\* the binary holds code and commands and the DolFile holds a section
C14_Witness ==
    /\ DynamicApplied
    /\ call.self.rawCode # <<>>
    /\ call.self.commands # <<>>
    /\ call.other.dol.sections # <<>>

\* the number a given original stands for, a KWord or an int
OriginalValue(original) == IF IsKWord(original) THEN value(original) ELSE original.int

\* WriteCommand(address, value, valueType, original) was called with an original
ConditionalBuilt == call.op = "WriteCommand" /\ call.other.original # None

\* apply_to_dol(dol) was called on a conditional WriteCommand whose address
\* and value pass the assertions, with the datum at the address readable
ConditionalApplied ==
    /\ call.op = "Command.apply_to_dol"
    /\ call.self.cls = "WriteCommand"
    /\ call.self.original # None
    /\ is_absolute_addr(call.self.address)
    /\ IF call.self.valueType = Pointer THEN is_absolute_addr(call.self.value)
       ELSE is_value(call.self.value)
    /\ ~Raised(dol_read(call.other.dol, value(call.self.address),
                        Width(call.self.valueType)))

\* C15: a conditional WriteCommand of any width is constructed from its
\* address, value and original, and its apply_to_dol writes the value at the
\* address when the datum of that width stored there equals the original
\* and leaves the DolFile untouched when it differs.
C15_ConditionalWrite ==
    /\ ConditionalBuilt =>
           /\ ~Raised(call.out)
           /\ call.out.original # None
           /\ OriginalValue(call.out.original) = OriginalValue(call.other.original)
    /\ ConditionalApplied =>
           IF Unpacked(dol_read(call.other.dol, value(call.self.address),
                                Width(call.self.valueType)))
                 = Ok(OriginalValue(call.self.original))
           THEN dol = dol_write(call.other.dol, value(call.self.address),
                                Packed(Width(call.self.valueType),
                                       value(call.self.value)))
           ELSE dol = call.other.dol

\* ((dest >> 16) + (1 if bit 15 of dest is set else 0)) & 0xFFFF
HighAdjusted(dest) ==
    ((dest \div 2 ^ HalfBits)
     + (IF (dest \div 2 ^ (HalfBits - 1)) % 2 = 1 THEN 1 ELSE 0)) % 2 ^ HalfBits

\* apply(f) of an R_PPC_ADDR16_HA relocation with an ABSOLUTE dest returned
HaApplied ==
    /\ call.op = "Command.apply"
    /\ call.self.cls = "RelocCommand"
    /\ call.self.id = R_PPC_ADDR16_HA
    /\ is_absolute_addr(call.self.target)
    /\ ~Raised(call.out)

\* C19: applying an R_PPC_ADDR16_HA relocation with an ABSOLUTE dest leaves
\* at the source the half word ((dest >> 16) + b) & 0xFFFF, where b is bit
\* 15 of dest: the high half that, shifted back and added to the
\* sign-extended low half, gives dest.
C19_HighAdjusted ==
    HaApplied =>
        read_u16(kbin, value(call.self.address))
            = Ok(HighAdjusted(value(call.self.target)))

-----------------------------------------------------------------------------
(* Claims about symbols and relocations, checked under SpecSymbols *)

\* a link call has run the phases on the linker
Linking == call.op \in LinkOps /\ call.out # AlreadyLinked

\* the relocations of one SHT_RELA section rela of the module at path, whose
\* patched section has the base given: the source, the type, the symbol the
\* name resolves to and the addend of each
SectionRelocations(L, path, elf, rela, base) ==
    {[source |-> value(base) + rela.relocs[k].r_offset,
      type   |-> rela.relocs[k].r_info % 256,
      name   |-> get_section(elf, rela.header.sh_link)
                     .symbols[(rela.relocs[k].r_info \div 256) + 1].name,
      sym    |-> _resolve_symbol(L, path,
                     get_section(elf, rela.header.sh_link)
                         .symbols[(rela.relocs[k].r_info \div 256) + 1].name),
      addend |-> rela.relocs[k].r_addend] : k \in DOMAIN rela.relocs}

\* the SHT_RELA sections of the module m that patch an imported section
ImportedRelas(L, m) ==
    {i \in DOMAIN L._modules[m].elf.sections :
        /\ L._modules[m].elf.sections[i].header.sh_type = "SHT_RELA"
        /\ __get_section_key(get_section(L._modules[m].elf,
                L._modules[m].elf.sections[i].header.sh_info))
              \in DOMAIN L._sectionBases}

\* the relocations of the imported sections of all modules
Relocations(L) ==
    UNION {UNION {SectionRelocations(L, L._modules[m].path, L._modules[m].elf,
                      L._modules[m].elf.sections[i],
                      L._sectionBases[__get_section_key(get_section(L._modules[m].elf,
                          L._modules[m].elf.sections[i].header.sh_info))]) :
                  i \in ImportedRelas(L, m)} : m \in DOMAIN L._modules}

\* the fixups recorded for the relocation r
FixupsOf(L, r) ==
    {k \in DOMAIN L._fixups :
        value(L._fixups[k].source) = r.source /\ L._fixups[k].type = r.type}

\* the symbols of the symbol tables of the module m that refer to an
\* imported section
SectionSymbols(L, m) ==
    UNION {{L._modules[m].elf.sections[i].symbols[j] :
                j \in DOMAIN L._modules[m].elf.sections[i].symbols} :
           i \in {i \in DOMAIN L._modules[m].elf.sections :
                      IsSymbolTable(L._modules[m].elf.sections[i])}}

\* the symbol the relocation r resolved to is one a module defines in an
\* imported section
DefinedInSection(L, r) ==
    /\ ~Raised(r.sym)
    /\ \E m \in DOMAIN L._modules : \E s \in SectionSymbols(L, m) :
          /\ s.name = r.name /\ s.name # <<>> /\ IsIndex(s.st_shndx)
          /\ __get_section_key(get_section(L._modules[m].elf, s.st_shndx.idx))
                \in DOMAIN L._sectionBases
          /\ value(r.sym.address)
                = (value(L._sectionBases[__get_section_key(
                      get_section(L._modules[m].elf, s.st_shndx.idx))])
                   + s.st_value) % Modulus
          /\ r.sym.size = s.st_size

\* C16: after relocation processing the dest of every recorded fixup that
\* refers to a symbol defined in an imported section has the kind of the
\* base address: ABSOLUTE after link_static, RELATIVE after link_dynamic.
C16_FixupKinds ==
    Linking =>
        \A r \in Relocations(linker) :
            DefinedInSection(linker, r) =>
                \A k \in FixupsOf(linker, r) :
                    linker._fixups[k].dest.type = linker.baseAddress.type

\* the symbol s of a table of elf is a processed STB_GLOBAL or STB_WEAK
\* definition of name: it is named, and absolute or in an imported section
Defines(L, elf, s, name) ==
    /\ s.name = name /\ name # <<>>
    /\ s.bind \in {"STB_GLOBAL", "STB_WEAK"}
    /\ \/ s.st_shndx = SHN_ABS
       \/ /\ IsIndex(s.st_shndx)
          /\ __get_section_key(get_section(elf, s.st_shndx.idx))
                \in DOMAIN L._sectionBases

\* the Symbol the definition s stands for
DefinedSymbol(L, elf, s) ==
    Symbol(IF s.st_shndx = SHN_ABS
           THEN KWord(PyInt(s.st_value), ABSOLUTE, FALSE)
           ELSE KWord(PyInt(value(L._sectionBases[__get_section_key(
                                get_section(elf, s.st_shndx.idx))]) + s.st_value),
                      L._sectionBases[__get_section_key(
                          get_section(elf, s.st_shndx.idx))].type, FALSE),
           s.st_size, s.bind = "STB_WEAK")

DefinedSymbols(L, elf, defs) ==
    [k \in DOMAIN defs |-> DefinedSymbol(L, elf, defs[k])]

\* the definitions of name in the order the symbol tables are processed,
\* from the section i of the module m on
RECURSIVE Definitions(_, _, _, _)
Definitions(L, name, m, i) ==
    IF m > Len(L._modules) THEN <<>>
    ELSE IF i > Len(L._modules[m].elf.sections)
    THEN Definitions(L, name, m + 1, 1)
    ELSE IF ~IsSymbolTable(L._modules[m].elf.sections[i])
    THEN Definitions(L, name, m, i + 1)
    ELSE DefinedSymbols(L, L._modules[m].elf,
             SelectSeq(L._modules[m].elf.sections[i].symbols,
                       LAMBDA s : Defines(L, L._modules[m].elf, s, name)))
         \o Definitions(L, name, m, i + 1)

IsStrong(sym) == ~sym.isWeak

\* the entry the binding rules leave for definitions with at most one
\* STB_GLOBAL among them
Bound(defs, globals) ==
    IF globals # <<>> THEN globals[1] ELSE defs[1]

\* every symbol table of every module is linked to a section of its module
TablesLinked(L) ==
    \A m \in DOMAIN L._modules : \A i \in DOMAIN L._modules[m].elf.sections :
        IsSymbolTable(L._modules[m].elf.sections[i]) =>
            /\ L._modules[m].elf.sections[i].header.sh_link > 0
            /\ L._modules[m].elf.sections[i].header.sh_link
                  < num_sections(L._modules[m].elf)

\* the symbol tables of every module have been parsed to their end
SymbolsBuilt(L) ==
    \A m \in DOMAIN L._modules :
        (\E i \in DOMAIN L._modules[m].elf.sections :
            IsSymbolTable(L._modules[m].elf.sections[i]))
        => L._modules[m].path \in DOMAIN L._localSymbols

\* the globals entry of name is what its definitions defs bind
BindsTo(L, name, defs) ==
    IF defs = <<>> THEN name \notin DOMAIN L._globalSymbols
    ELSE /\ name \in DOMAIN L._globalSymbols
         /\ L._globalSymbols[name] = Bound(defs, SelectSeq(defs, IsStrong))

\* C17: whatever the order in which the STB_GLOBAL and STB_WEAK
\* definitions of a name are processed across the modules, two STB_GLOBAL
\* definitions make the link fail with InvalidData; otherwise, once the
\* symbol tables are built, the globals entry of the name is its STB_GLOBAL
\* definition if there is one and else the first STB_WEAK definition.
C17_GlobalBinding ==
    Linking =>
        \A name \in SymbolNames \cup DOMAIN linker._globalSymbols :
            /\ (/\ Collected(linker) /\ TablesLinked(linker)
                /\ Len(SelectSeq(Definitions(linker, name, 1, 1), IsStrong)) >= 2)
               => call.out = Raise("InvalidDataException")
            /\ (/\ SymbolsBuilt(linker)
                /\ Len(SelectSeq(Definitions(linker, name, 1, 1), IsStrong)) <= 1)
               => BindsTo(linker, name, Definitions(linker, name, 1, 1))

\* a link has bound a name to its STB_GLOBAL definition, processed after a
\* STB_WEAK definition and before another
WeakGlobalWeak(defs) ==
    /\ Len(defs) >= 3 /\ defs[1].isWeak /\ defs[Len(defs)].isWeak
    /\ Len(SelectSeq(defs, IsStrong)) = 1

C17_Witness ==
    /\ Linking /\ SymbolsBuilt(linker) /\ Len(linker._modules) >= 3
    /\ \E name \in DOMAIN linker._globalSymbols :
          /\ WeakGlobalWeak(Definitions(linker, name, 1, 1))
          /\ ~linker._globalSymbols[name].isWeak

\* _resolve_symbol has been called for a module whose locals are recorded
Resolving ==
    call.op = "_resolve_symbol" /\ call.other.elfpath \in DOMAIN linker._localSymbols

\* sym is the local symbol called name among the locals given
IsLocal(locals, name, sym) ==
    \E k \in DOMAIN locals : locals[k].name = name /\ locals[k].sym = sym

\* sym is the extern of the address given, as an ABSOLUTE symbol
IsExtern(sym, address) ==
    /\ ~Raised(sym) /\ sym.address.type = ABSOLUTE
    /\ value(sym.address) = address /\ sym.size = 0 /\ ~sym.isWeak

\* the lookup order for name among the locals of the module, the globals
\* and the externs
ResolvedInOrder(locals, globals, externs, name, out) ==
    IF \E k \in DOMAIN locals : locals[k].name = name
    THEN IsLocal(locals, name, out)
    ELSE IF name \in DOMAIN globals THEN out = globals[name]
    ELSE IF name \in DOMAIN externs THEN IsExtern(out, externs[name])
    ELSE out = Raise("InvalidDataException")

\* C18: resolving a name for a module returns the local symbol of that
\* module with the name if there is one, otherwise the global symbol of the
\* name, otherwise the extern of the name as an ABSOLUTE symbol, and
\* otherwise fails with InvalidData; a local symbol of another module is
\* never returned.
C18_ResolveOrder ==
    Resolving =>
        ResolvedInOrder(linker._localSymbols[call.other.elfpath],
                        linker._globalSymbols, linker._externSymbols,
                        call.other.name, call.out)

\* a name was resolved to the local symbol of the module while the globals
\* hold another symbol of the same name
C18_Witness ==
    /\ Resolving
    /\ IsLocal(linker._localSymbols[call.other.elfpath], call.other.name, call.out)
    /\ call.other.name \in DOMAIN linker._globalSymbols
    /\ linker._globalSymbols[call.other.name] # call.out

\* the address source lies in [kamekStart, kamekEnd)
InKamek(L, source) ==
    value(L.kamekStart) <= source /\ source < value(L.kamekEnd)

\* the dest of the relocation r: the address of its symbol plus the addend
DestOf(r) == KWord(PyInt(value(r.sym.address) + r.addend), ABSOLUTE, FALSE)

\* the key of _kamekRelocs for the address source
SourceKey(source) == DictKey(KWord(PyInt(source), ABSOLUTE, FALSE))

\* the relocation r, one of relocs, was consumed by the hook section:
\* _kamekRelocs holds at its source the dest of a relocation of that source
\* (of r when it is the only one), and no fixup is recorded for it
Consumed(L, r, relocs) ==
    /\ SourceKey(r.source) \in DOMAIN L._kamekRelocs
    /\ L._kamekRelocs[SourceKey(r.source)]
          \in {DestOf(x) : x \in {x \in relocs : x.source = r.source}}
    /\ FixupsOf(L, r) = {}

\* the relocation r was recorded as a fixup and not in _kamekRelocs
Fixed(L, r) ==
    /\ \E k \in FixupsOf(L, r) : L._fixups[k].dest = DestOf(r)
    /\ SourceKey(r.source) \notin DOMAIN L._kamekRelocs

\* nothing but a relocation in the hook section can stop relocation
\* processing: the symbol tables are built, no module has a SHT_REL section,
\* every SHT_RELA section is linked to a section and to a symbol table and
\* has entries of 12 bytes that name a symbol, and every symbol resolves
RelocationsSound(L) ==
    /\ SymbolsBuilt(L)
    /\ \A m \in DOMAIN L._modules : \A i \in DOMAIN L._modules[m].elf.sections :
          /\ L._modules[m].elf.sections[i].header.sh_type # "SHT_REL"
          /\ L._modules[m].elf.sections[i].header.sh_type = "SHT_RELA" =>
                /\ L._modules[m].elf.sections[i].header.sh_info > 0
                /\ L._modules[m].elf.sections[i].header.sh_info
                      < num_sections(L._modules[m].elf)
                /\ L._modules[m].elf.sections[i].header.sh_link > 0
                /\ L._modules[m].elf.sections[i].header.sh_link
                      < num_sections(L._modules[m].elf)
                /\ L._modules[m].elf.sections[i].header.sh_entsize = 12
                /\ IsSymbolTable(get_section(L._modules[m].elf,
                       L._modules[m].elf.sections[i].header.sh_link))
                /\ \A k \in DOMAIN L._modules[m].elf.sections[i].relocs :
                       L._modules[m].elf.sections[i].relocs[k].r_info \div 256 # 0
    /\ \A r \in Relocations(L) : ~Raised(r.sym) /\ ~Raised(DestOf(r))

\* C20: a relocation whose source lies in [kamekStart, kamekEnd) and whose
\* type is R_PPC_ADDR32 sets _kamekRelocs[source] to its dest and records
\* no fixup; one of any other type there makes the link fail with
\* InvalidOperation; so no recorded fixup has its source in that range, no
\* key of _kamekRelocs lies outside it, and after a link that succeeded
\* every relocation with its source outside the range is recorded as a
\* fixup and not in _kamekRelocs.
C20_KamekRelocs ==
    Linking =>
        /\ \A k \in DOMAIN linker._fixups :
               ~InKamek(linker, value(linker._fixups[k].source))
        /\ \A key \in DOMAIN linker._kamekRelocs : InKamek(linker, key[2])
        /\ ~Raised(call.out) =>
               \A r \in Relocations(linker) :
                   IF InKamek(linker, r.source)
                   THEN r.type = R_PPC_ADDR32
                        /\ Consumed(linker, r, Relocations(linker))
                   ELSE Fixed(linker, r)
        /\ (/\ RelocationsSound(linker)
            /\ \E r \in Relocations(linker) :
                  InKamek(linker, r.source) /\ r.type # R_PPC_ADDR32)
           => call.out = Raise("InvalidOperationException")

\* a link succeeded with a relocation consumed by the hook section and
\* another one, outside of it, recorded as a fixup
C20_Witness ==
    /\ Linking /\ ~Raised(call.out)
    /\ \E r \in Relocations(linker) :
          InKamek(linker, r.source) /\ Consumed(linker, r, Relocations(linker))
    /\ \E r \in Relocations(linker) :
          ~InKamek(linker, r.source) /\ Fixed(linker, r)

\* the symbol s of a table of elf is one the symbol loop accepts: named,
\* bound, and absolute or in an imported section
Accepted(L, elf, s) ==
    /\ s.name # <<>>
    /\ s.bind \in {"STB_LOCAL", "STB_GLOBAL", "STB_WEAK"}
    /\ \/ s.st_shndx = SHN_ABS
       \/ /\ IsIndex(s.st_shndx)
          /\ __get_section_key(get_section(elf, s.st_shndx.idx))
                \in DOMAIN L._sectionBases

\* the _symbolSizes keys of the accepted symbols of the module m whose
\* st_size is not 0
SizedKeys(L, m) ==
    {DictKey(DefinedSymbol(L, L._modules[m].elf, s).address) :
        s \in {s \in SectionSymbols(L, m) :
                  Accepted(L, L._modules[m].elf, s) /\ s.st_size # 0}}

\* C21: after the symbol tables are built _symbolSizes has an entry for an
\* address only if an accepted symbol with a nonzero st_size is defined at
\* that address, and a symbol whose st_size is 0 neither creates an entry
\* nor overwrites the nonzero size recorded for its address: every entry
\* is at the address of a sized symbol and is not 0.
C21_SymbolSizes ==
    (Linking /\ SymbolsBuilt(linker)) =>
        \A key \in DOMAIN linker._symbolSizes :
            /\ key \in UNION {SizedKeys(linker, m) : m \in DOMAIN linker._modules}
            /\ linker._symbolSizes[key] # 0

\* the section of the import a: the one with its index in the module of
\* its path
ImportedSection(L, a) ==
    L._modules[CHOOSE m \in DOMAIN L._modules : L._modules[m].path = a.path]
        .elf.sections[a.index + 1]

\* the bytes of the buffer at the address given, for a buffer that starts
\* at the base address
MemoryAt(L, address, size) ==
    ReadBytes(L._memory, address - value(L.baseAddress), size)

\* C24: after section collection the memory buffer is consistent with the
\* layout: the bytes of every imported section are in the buffer at the
\* offset of its base from the base address, and the length of the buffer
\* is kamekEnd - baseAddress, so that a read at address - baseAddress
\* returns what was laid out at the address.
C24_MemoryLayout ==
    (Linking /\ Collected(linker)) =>
        /\ Len(linker._memory) = value(linker.kamekEnd) - value(linker.baseAddress)
        /\ \A i \in DOMAIN linker.imported :
               MemoryAt(linker, linker.imported[i].cursor,
                        Len(ImportedSection(linker, linker.imported[i]).data))
                   = ImportedSection(linker, linker.imported[i]).data

-----------------------------------------------------------------------------
(* Claims about the words pack() serializes, checked under SpecOutput *)

PackCalled == call.op = "pack"

\* the word w is not ambiguous: not ABSOLUTE below the top bit, not
\* RELATIVE with the top bit set
NotAmbiguous(w) ==
    /\ ~(w.type = ABSOLUTE /\ value(w) < TopBit)
    /\ ~(w.type = RELATIVE /\ value(w) >= TopBit)

\* the words of the arguments of cmd are of the kinds the format asks for
ArgumentsKinded(cmd) ==
    IF cmd.cls = "WriteCommand"
    THEN /\ IF cmd.valueType = Pointer THEN NotAmbiguous(cmd.value)
            ELSE cmd.value.type = VALUE
         /\ cmd.original # None =>
               IsKWord(cmd.original) /\ cmd.original.type # RELATIVE
    ELSE IF cmd.cls = "PatchExitCommand"
    THEN NotAmbiguous(cmd.endAddress) /\ NotAmbiguous(cmd.target)
    ELSE NotAmbiguous(cmd.target)

WellKinded(cmd) == NotAmbiguous(cmd.address) /\ ArgumentsKinded(cmd)

\* C22: pack() never emits an ambiguous or wrongly-kinded word: when a
\* command of the binary has an ambiguous address, target or Pointer value,
\* a write value that is not a VALUE or a RELATIVE original, pack() does
\* not return a stream but fails with InvalidOperation.
C22_PackKinds ==
    (/\ PackCalled
     /\ \E k \in DOMAIN call.self.commands : ~WellKinded(call.self.commands[k].cmd))
    => call.out = Raise("InvalidOperationException")

\* the leading word of the record of the k-th command in what pack returned
HeaderWord(k) ==
    BigEndian(SubSeq(call.out.v, RecordStart(call.self, k) + 1,
                     RecordStart(call.self, k) + 4))

\* C29: the header of a record is decodable: a record in the inline form
\* (RELATIVE address) never has the marker of the long form in the bits
\* below the id, so a command with a RELATIVE address and a command of the
\* same id with another kind of address never have the same leading word.
C29_HeaderDecodable ==
    PackReturned =>
        /\ \A k \in DOMAIN call.self.commands :
               call.self.commands[k].cmd.address.type = RELATIVE
                   => HeaderWord(k) % 2 ^ IdShift # AddressMax - 1
        /\ \A j, k \in DOMAIN call.self.commands :
               (/\ call.self.commands[j].cmd.id = call.self.commands[k].cmd.id
                /\ call.self.commands[j].cmd.address.type = RELATIVE
                /\ call.self.commands[k].cmd.address.type # RELATIVE)
               => HeaderWord(j) # HeaderWord(k)

\* the function at the source of the call is one PatchExit folds statically:
\* accepted, with an ABSOLUTE source and target inside the loaded code
Foldable ==
    /\ PatchExitCall
    /\ ~Refused(call.other.f, value(call.self.address), FuncSize)
    /\ is_absolute_addr(call.self.address) /\ is_absolute_addr(call.self.target)
    /\ contains(call.other.f, call.self.address)

\* the offset in the code of the last word of the function
FuncEndOffset == value(call.self.address) + FuncSize - 4 - value(call.other.f.baseAddr)

\* 0x48000000 | ((target - funcEnd) & 0x03FFFFFC)
ExitBranch ==
    BitOr(Opcode(18),
          BitAnd((value(call.self.target) + Modulus
                  - (value(call.self.address) + FuncSize - 4)) % Modulus,
                 Ok(DisplacementMask))).v

\* C27: the static fold of PatchExitCommand.apply changes only the last word
\* of the function, at funcEnd = source + size - 4, and stores there the
\* unconditional branch from funcEnd to the target; every other byte of the
\* code is as before.
C27_PatchExitFold ==
    Foldable =>
        /\ ~Raised(call.out)
        /\ Len(kbin.rawCode) = Len(call.other.f.rawCode)
        /\ BigEndian(SubSeq(kbin.rawCode, FuncEndOffset + 1, FuncEndOffset + 4))
               = ExitBranch
        /\ \A i \in DOMAIN kbin.rawCode :
               i \notin (FuncEndOffset + 1)..(FuncEndOffset + 4)
                   => kbin.rawCode[i] = call.other.f.rawCode[i]

-----------------------------------------------------------------------------
(* Claims about the gecko codes of write commands, checked under SpecGecko *)

\* pack_gecko_codes has been called on a write command
GeckoCalled == call.op = "WriteCommand.pack_gecko_codes"

\* an unconditional write of a half word, a word or a pointer to an
\* ABSOLUTE address below 0x90000000, its value of the kind its type asks for
GeckoSupported(cmd) ==
    /\ cmd.original = None
    /\ cmd.valueType \in {Value16, Value32, Pointer}
    /\ cmd.address.type = ABSOLUTE /\ value(cmd.address) < Mem2Start
    /\ cmd.value.type = (IF cmd.valueType = Pointer THEN ABSOLUTE ELSE VALUE)

\* ((address & 0x01FFFFFF) << 32) | value | (kindMask << 32), as its upper
\* and its lower word
GeckoWord(cmd) ==
    [hi |-> (value(cmd.address) % (GeckoMask + 1))
            + (IF cmd.valueType = Value16 THEN Gecko16 ELSE Gecko32),
     lo |-> value(cmd.value)]

\* C23: for an unconditional WriteCommand of type Value16, Value32 or
\* Pointer with an ABSOLUTE address below 0x90000000 pack_gecko_codes
\* returns exactly one code, ((address & 0x01FFFFFF) << 32) | value |
\* (kindMask << 32) with kindMask 0x02000000 for Value16 and 0x04000000 for
\* Value32 and Pointer; a conditional write and a write to an address at or
\* above 0x90000000 are rejected.
C23_GeckoCodes ==
    GeckoCalled =>
        /\ GeckoSupported(call.self) => call.out = Ok(<<GeckoWord(call.self)>>)
        /\ (\/ call.self.original # None
            \/ value(call.self.address) >= Mem2Start) => Raised(call.out)

-----------------------------------------------------------------------------
(* Claims about the two ways a relocation is applied, checked under SpecReloc *)

\* the positions of a buffer a call changed, each with the byte it holds now
Changes(old, new) ==
    {<<i, new[i]>> : i \in {j \in DOMAIN new : j \notin DOMAIN old \/ new[j] # old[j]}}

\* the bytes of the only section of the DolFile D
DataOf(D) == D.sections[1].data

\* the code K and the DolFile D hold the same bytes in the word at the source
\* of cmd; both start at the same address
SameAtSource(cmd, K, D) ==
    /\ D.sections[1].address = BaseOf(K)
    /\ SubSeq(K.rawCode, value(cmd.address) - BaseOf(K) + 1,
              value(cmd.address) - BaseOf(K) + 4)
       = SubSeq(DataOf(D), value(cmd.address) - BaseOf(K) + 1,
                value(cmd.address) - BaseOf(K) + 4)

\* a relocation with ABSOLUTE source and dest was applied to the DolFile,
\* or to the code
AppliedToDol ==
    /\ call.op = "RelocCommand.apply_to_dol"
    /\ is_absolute_addr(call.self.address) /\ is_absolute_addr(call.self.target)
AppliedToCode ==
    /\ call.op = "RelocCommand.apply"
    /\ is_absolute_addr(call.self.address) /\ is_absolute_addr(call.self.target)

\* C28: for each of the five relocation types with ABSOLUTE source and
\* dest, RelocCommand.apply_to_dol on a DOL holding the same bytes at the
\* source as the code changes exactly the byte positions RelocCommand.apply
\* changes in the code, to the same values, and the other way round.
C28_RelocSameBytes ==
    /\ (AppliedToDol /\ SameAtSource(call.self, kbin, call.other.dol))
         => Changes(DataOf(call.other.dol), DataOf(dol))
            = Changes(kbin.rawCode, RelocCommand_apply(call.self, kbin).K.rawCode)
    /\ (AppliedToCode /\ SameAtSource(call.self, call.other.f, dol))
         => Changes(call.other.f.rawCode, kbin.rawCode)
            = Changes(DataOf(dol), DataOf(RelocCommand_apply_to_dol(call.self, dol)))

-----------------------------------------------------------------------------
(* Claims about a refused link, checked under SpecLinker *)

\* the state of the linker a link works on: the base address with the state
\* of the four phases
LinkState(L) == <<L.baseAddress, PhaseState(L)>>

\* C26: a link_static or link_dynamic call that fails with AlreadyLinked
\* leaves baseAddress (value and kind), the layout regions, the section
\* bases, the symbol tables, the fixups, the kamek relocs and the hooks as
\* they were before the call.
C26_RefusedLinkFrame ==
    [][(call'.op \in LinkOps /\ call'.out = AlreadyLinked)
       => LinkState(linker') = LinkState(linker)]_vars

-----------------------------------------------------------------------------
(* Claims about the value a KWord stores, checked under SpecStored *)

\* the value stored in the word w is an integer of the width of the word
StoredInRange(w) == w._value \in 0..WordMax

\* C25: after any sequence of constructions, assignments through the value
\* setter, binary operators, in-place operators and unary operators that
\* does not raise, the value stored in every KWord, the one operated on and
\* the one an operator returned, is an integer in [0, 2^32).
C25_StoredRange ==
    /\ StoredInRange(word)
    /\ IsKWord(call.out) => StoredInRange(call.out)

=============================================================================
